---------------------------- MODULE Spec2Model ----------------------------
(***************************************************************************)
(* A model of the route evaluation and selection engine of CleanAirRoute:  *)
(* AirQualityService of backend/cleanair-route/domain/air_quality.         *)
(*                                                                         *)
(* The service is one coroutine; it suspends only at its HTTP calls (the   *)
(* map API, and one oracle call per sampled coordinate).  The model has    *)
(* one action per step between two suspension points, and pure methods are *)
(* operators.  The variable entry names the method the caller invoked, so  *)
(* that a method can also be applied directly to inputs of its own.        *)
(*                                                                         *)
(* Two more services are modelled where the engine is compared with them:  *)
(* the handlers and route functions of services/route-logic, applied to    *)
(* inputs of their own, and the AI prediction service of                   *)
(* services/ai-prediction, whose globals model, scaler and model_loaded    *)
(* change with its startup, reload and predict operations.                 *)
(*                                                                         *)
(* Numbers.  Python floats are IEEE binary64: every +, -, * and / rounds   *)
(* its exact result to the nearest value with 53 mantissa bits, ties to    *)
(* even.  Coordinates are modelled as binary floats with the same rounding *)
(* rule and MantissaBits bits of mantissa; a float x is held as the        *)
(* integer x * 2^FracBits.  Concentrations and confidences are held in     *)
(* hundredths (pm25 = 25.0 is 2500, confidence = 0.5 is 50).  Means of     *)
(* integer indices are exact rationals, held as numerator and denominator. *)
(* The combined score that ranks the routes is computed in binary64        *)
(* itself, with all 53 bits: its floats are pairs of a mantissa, kept as a *)
(* sequence of limbs, and an exponent.                                     *)
(***************************************************************************)
EXTENDS Integers, Sequences, FiniteSets, TLC

VARIABLES
    entry,              \* the method under call
    pc,                 \* position of the coroutine
    request,            \* RouteRequest of the call
    libmRoundsUp,       \* whether sin/cos rounding makes haversine's a exceed 1 at antipodes
    oracleMode,         \* behaviour of the AI prediction service during the call
    route_candidates,   \* get_recommended_routes: route_candidates
    cand,               \* index of the candidate in the for loop (1-based)
    coordinates,        \* _get_air_quality_predictions: coordinates
    predictions,        \* _get_air_quality_predictions: predictions
    replies,            \* the oracle's reply to each call made so far, in call order
    posted,             \* the coordinate each call made so far posted, in call order
    clientError,        \* whether entering or leaving the oracle's HTTP client raised
    mapReply,           \* the map API's reply to _fetch_route_candidates
    processed_routes,   \* get_recommended_routes: processed_routes
    scored_routes,      \* get_recommended_routes: scored_routes
    args,               \* arguments of a method applied directly
    cancelled,          \* whether the task running get_recommended_routes was cancelled
    model,              \* AI prediction service: the global model
    scaler,             \* AI prediction service: the global scaler
    model_loaded,       \* AI prediction service: the global model_loaded
    history,            \* AI prediction service: the operations so far and how they ended
    result              \* what the method under call returned or raised

vars == << entry, pc, request, libmRoundsUp, oracleMode, route_candidates, cand,
           coordinates, predictions, replies, posted, clientError, mapReply, processed_routes,
           scored_routes, args, cancelled, model, scaler, model_loaded, history, result >>

\* What the steps of a method leave alone: what the call fixes at its start,
\* what only the caller's cancellation changes, and the globals of the AI
\* prediction service
callVars == << entry, request, libmRoundsUp, oracleMode, args, cancelled,
              model, scaler, model_loaded, history >>

---------------------------------------------------------------------------
(* Bounds of the model.                                                    *)

\* Mantissa bits of the modelled binary float (binary64 has 53).
MantissaBits == 8

\* Default of num_samples in _sample_route_coordinates.
NumSamples == 10

\* Longest list of candidates the map API returns.
MaxCandidates == 2

\* Longest argument list of a method applied directly.
MaxLen == 3

\* The longest coordinate list given to _get_air_quality_predictions directly
MaxCalls == 2

---------------------------------------------------------------------------
(* Python values: results and exceptions.                                  *)

Ok(v) == [ok |-> TRUE, val |-> v]

Raise(e) == [ok |-> FALSE, exc |-> e]

\* A value that is a list, or a number where a list is expected
PyList(l) == [list |-> l]

PyNumber(n) == [number |-> n]

\* dict.get(key, default)
Get(d, k, default) == IF k \in DOMAIN d THEN d[k] ELSE default

Abs(n) == IF n < 0 THEN -n ELSE n

Sign(n) == IF n < 0 THEN -1 ELSE 1

RECURSIVE Pow2(_)
Pow2(n) == IF n <= 0 THEN 1 ELSE 2 * Pow2(n - 1)

\* Number of bits of a natural number: 0 for 0, 1 for 1, 2 for 2 and 3 ...
RECURSIVE BitLen(_)
BitLen(n) == IF n <= 0 THEN 0 ELSE 1 + BitLen(n \div 2)

---------------------------------------------------------------------------
(* Binary floating point, round to nearest, ties to even.                  *)

\* A float x is the integer x * 2^FracBits.  The finest value the sampler
\* forms is a ratio i/num_samples >= 1/16 times a difference of coordinates
\* given in halves of a degree.
FracBits == MantissaBits + 4

Unit == Pow2(FracBits)

\* The float nearest to the exact value n (in units of 2^-FracBits).
FRound(n) ==
    LET m  == Abs(n)
        sh == BitLen(m) - MantissaBits
    IN  IF sh <= 0 THEN n
        ELSE LET q    == m \div Pow2(sh)
                 r    == m % Pow2(sh)
                 half == Pow2(sh - 1)
                 up   == IF r > half \/ (r = half /\ q % 2 = 1) THEN 1 ELSE 0
             IN  Sign(n) * (q + up) * Pow2(sh)

FAdd(a, b) == FRound(a + b)

FSub(a, b) == FRound(a - b)

\* n with its trailing zero bits removed, and how many there were.
RECURSIVE Trailing(_)
Trailing(n) == IF n = 0 \/ n % 2 # 0 THEN 0 ELSE 1 + Trailing(n \div 2)

\* a * b: the exact product of the two mantissas, rounded.
FMul(a, b) ==
    LET ta == Trailing(a)
        tb == Trailing(b)
        p  == (a \div Pow2(ta)) * (b \div Pow2(tb))
        e  == ta + tb - FracBits
    IN  IF e >= 0 THEN FRound(p * Pow2(e))
        ELSE LET sh   == -e
                 m    == Abs(p)
                 q    == m \div Pow2(sh)
                 r    == m % Pow2(sh)
                 half == Pow2(sh - 1)
                 up   == IF r > half \/ (r = half /\ q % 2 = 1) THEN 1 ELSE 0
             IN  FRound(Sign(p) * (q + up))

\* i / n for integers 0 <= i, 0 < n: the quotient rounded once.
FDivInt(i, n) ==
    IF i = 0 THEN 0
    ELSE LET \* scale so that the quotient has MantissaBits + 1 or more bits
             s    == MantissaBits + 1 + BitLen(n)
             num  == i * Pow2(s)
             q    == num \div n
             rem  == num % n
             sh   == BitLen(q) - MantissaBits
             m    == q \div Pow2(sh)
             low  == q % Pow2(sh)
             half == Pow2(sh - 1)
             up   == IF low > half \/ (low = half /\ rem > 0)
                        \/ (low = half /\ rem = 0 /\ m % 2 = 1) THEN 1 ELSE 0
             \* value is (m + up) * 2^(sh - s); in units of 2^-FracBits
             ex   == sh - s + FracBits
         IN  IF ex >= 0 THEN (m + up) * Pow2(ex) ELSE (m + up) \div Pow2(-ex)

\* The float of a coordinate given in halves of a degree.
Deg2(h) == FRound(h * (Unit \div 2))

---------------------------------------------------------------------------
(* Schema: Coordinate.                                                     *)

\* Coordinate(latitude=lat, longitude=lon): the validated model or ValidationError
Coordinate(lat, lon) ==
    IF /\ lat >= -90 * Unit /\ lat <= 90 * Unit
       /\ lon >= -180 * Unit /\ lon <= 180 * Unit
    THEN Ok([latitude |-> lat, longitude |-> lon])
    ELSE Raise("ValidationError")

---------------------------------------------------------------------------
(* CoordinateSampler: AirQualityService._sample_route_coordinates.         *)

\* One iteration of the for loop: the i-th sample (i in 0..num_samples)
SamplePoint(waypoints, i, num_samples) ==
    LET ratio       == FDivInt(i, num_samples)
        start_point == waypoints[1]
        end_point   == waypoints[Len(waypoints)]
    IN  IF ~ ({"latitude", "longitude"} \subseteq DOMAIN start_point)
           \/ ~ ({"latitude", "longitude"} \subseteq DOMAIN end_point)
        THEN Raise("KeyError")
        ELSE LET lat == FAdd(start_point["latitude"],
                             FMul(FSub(end_point["latitude"], start_point["latitude"]), ratio))
                 lon == FAdd(start_point["longitude"],
                             FMul(FSub(end_point["longitude"], start_point["longitude"]), ratio))
             IN  Coordinate(lat, lon)

\* The loop: sampled after iterations 0..i, or the first exception raised
RECURSIVE SampleLoop(_, _, _)
SampleLoop(waypoints, i, num_samples) ==
    IF i < 0 THEN Ok(<< >>)
    ELSE LET before == SampleLoop(waypoints, i - 1, num_samples)
         IN  IF ~ before.ok THEN before
             ELSE LET p == SamplePoint(waypoints, i, num_samples)
                  IN  IF p.ok THEN Ok(Append(before.val, p.val)) ELSE p

\* The guard of the sampler off by one: len(waypoints) < 1
sample_route_coordinates_guard_off_by_one(waypoints, num_samples) ==
    IF Len(waypoints) < 1 THEN Ok(<< >>)
    ELSE SampleLoop(waypoints, num_samples, num_samples)

sample_route_coordinates(waypoints, num_samples) ==
    IF Len(waypoints) < 2 THEN Ok(<< >>)
    ELSE SampleLoop(waypoints, num_samples, num_samples)

---------------------------------------------------------------------------
(* Schema: AirQualityData, and the default sample.                         *)

\* AirQualityData(...): the validated model or ValidationError
AirQualityData(pm25, pm10, o3, no2, air_quality_index, grade, confidence) ==
    IF /\ pm25 >= 0 /\ pm10 >= 0 /\ o3 >= 0 /\ no2 >= 0
       /\ air_quality_index >= 0 /\ air_quality_index <= 500
       /\ confidence >= 0 /\ confidence <= 100
    THEN Ok([pm25 |-> pm25, pm10 |-> pm10, o3 |-> o3, no2 |-> no2,
             air_quality_index |-> air_quality_index, grade |-> grade,
             confidence |-> confidence])
    ELSE Raise("ValidationError")

create_default_air_quality ==
    AirQualityData(2500, 4000, 5, 2, 50, "moderate", 50).val

---------------------------------------------------------------------------
(* AirQualityOracle client: AirQualityService._get_air_quality_predictions *)

\* The sample built without the except around it: a payload AirQualityData
\* rejects is kept as it came
ReplyEstimate_unvalidated(reply) ==
    IF reply.kind = "exception" THEN Raise("RequestError")
    ELSE IF reply.status_code = 200
    THEN IF ~ reply.parses THEN Raise("JSONDecodeError")
         ELSE LET data == reply.json
              IN  IF Get(data, "success", FALSE) /\ Get(data, "predictions", << >>) # << >>
                  THEN LET pred == data["predictions"][1]
                       IN  Ok([pm25 |-> Get(pred, "predicted_pm25", 2500),
                               pm10 |-> Get(pred, "predicted_pm10", 4000),
                               o3 |-> Get(pred, "predicted_o3", 5),
                               no2 |-> Get(pred, "predicted_no2", 2),
                               air_quality_index |-> Get(pred, "air_quality_index", 50),
                               grade |-> Get(pred, "grade", "moderate"),
                               confidence |-> Get(pred, "confidence", 80)])
                  ELSE Ok(create_default_air_quality)
    ELSE Ok(create_default_air_quality)

\* The body of the inner try for one coordinate, given the oracle's reply:
\* the sample built from the reply, or the exception raised on the way.
ReplyEstimate(reply) ==
    IF reply.kind = "exception" THEN Raise("RequestError")
    ELSE IF reply.status_code = 200
    THEN IF ~ reply.parses THEN Raise("JSONDecodeError")
         ELSE LET data == reply.json
              IN  IF Get(data, "success", FALSE) /\ Get(data, "predictions", << >>) # << >>
                  THEN LET pred == data["predictions"][1]
                       IN  AirQualityData(Get(pred, "predicted_pm25", 2500),
                                          Get(pred, "predicted_pm10", 4000),
                                          Get(pred, "predicted_o3", 5),
                                          Get(pred, "predicted_no2", 2),
                                          Get(pred, "air_quality_index", 50),
                                          Get(pred, "grade", "moderate"),
                                          Get(pred, "confidence", 80))
                  ELSE Ok(create_default_air_quality)
    ELSE Ok(create_default_air_quality)

\* The iteration putting the newest sample first
AppendPrediction_newest_first(preds, reply) ==
    LET e == ReplyEstimate(reply)
    IN  << IF e.ok THEN e.val ELSE create_default_air_quality >> \o preds

\* One iteration of the for loop: try ... except Exception -> default
AppendPrediction(preds, reply) ==
    LET e == ReplyEstimate(reply)
    IN  Append(preds, IF e.ok THEN e.val ELSE create_default_air_quality)

\* The outer except: a default sample for every coordinate
AllDefaults(coords) == [k \in 1..Len(coords) |-> create_default_air_quality]

---------------------------------------------------------------------------
(* Great-circle distance: AirQualityService._calculate_distance.           *)

\* The two points are antipodes: lat2 = -lat1 and the longitudes differ by
\* 180 degrees.  There sin(dlat/2)^2 + cos(lat1)*cos(lat2)*sin(dlon/2)^2 is 1
\* in exact arithmetic.
Antipodal(lat1, lon1, lat2, lon2) ==
    /\ lat1 + lat2 = 0
    /\ Abs(FSub(lon2, lon1)) = 180 * Unit

\* R * 2 * atan2(sqrt(a), sqrt(1 - a)).  The value is kept as a term: the
\* great circle between the two points, times10 / 10.  At antipodes the
\* rounded a is 1 or just above 1, as the platform's sin and cos round it;
\* above 1, math.sqrt(1 - a) raises ValueError (math domain error).
calculate_distance(lat1, lon1, lat2, lon2) ==
    IF Antipodal(lat1, lon1, lat2, lon2) /\ libmRoundsUp
    THEN Raise("ValueError")
    ELSE Ok([kind |-> "haversine", from |-> << lat1, lon1 >>, to |-> << lat2, lon2 >>,
             times10 |-> 10])

\* distance * 1.1, distance * 1.3
Times(distance, t10) == [distance EXCEPT !.times10 = t10]

\* A distance read from the map API's JSON, in km
Km(n) == [kind |-> "number", value |-> n]

\* distance >= 0: atan2 of two square roots is in [0, pi/2]
NonNegative(distance) == distance.kind = "haversine" \/ distance.value >= 0

---------------------------------------------------------------------------
(* Fallback candidates: AirQualityService._generate_dummy_routes.          *)

RequestWaypoints(req) ==
    << [latitude |-> req.start_lat, longitude |-> req.start_lon],
       [latitude |-> req.end_lat, longitude |-> req.end_lon] >>

generate_dummy_routes(req) ==
    LET distance == calculate_distance(req.start_lat, req.start_lon, req.end_lat, req.end_lon)
    IN  IF ~ distance.ok THEN distance
        ELSE Ok(PyList(
                << [route_id |-> "route_001", type |-> "fastest",
                    distance |-> Times(distance.val, 11), duration |-> 25,
                    polyline |-> "dummy_polyline_fastest",
                    waypoints |-> RequestWaypoints(req)],
                   [route_id |-> "route_002", type |-> "shortest",
                    distance |-> distance.val, duration |-> 35,
                    polyline |-> "dummy_polyline_shortest",
                    waypoints |-> RequestWaypoints(req)],
                   [route_id |-> "route_003", type |-> "healthiest",
                    distance |-> Times(distance.val, 13), duration |-> 45,
                    polyline |-> "dummy_polyline_healthiest",
                    waypoints |-> RequestWaypoints(req)] >>))

---------------------------------------------------------------------------
(* CandidateRouteFetcher: AirQualityService._fetch_route_candidates.       *)

\* What the method returns or raises, given the map API's reply
fetch_route_candidates(req, reply) ==
    IF reply.kind = "exception" THEN generate_dummy_routes(req)
    ELSE IF reply.status_code = 200
    THEN IF ~ reply.parses \/ ~ reply.is_object
         THEN generate_dummy_routes(req)    \* json() or data.get raises: except
         ELSE Ok(Get(reply.json, "routes", PyList(<< >>)))
    ELSE generate_dummy_routes(req)

\* not route_candidates
Falsy(routes) ==
    IF "list" \in DOMAIN routes THEN routes.list = << >> ELSE routes.number = 0

---------------------------------------------------------------------------
(* Exact rationals, for means of integers.                                 *)

RECURSIVE Gcd(_, _)
Gcd(a, b) == IF b = 0 THEN a ELSE Gcd(b, a % b)

\* n / d in lowest terms, d > 0
Rat(n, d) == LET g == Gcd(Abs(n), d) IN [num |-> n \div g, den |-> d \div g]

RLess(a, b) == a.num * b.den < b.num * a.den

RLeq(a, b) == a.num * b.den <= b.num * a.den

RSub(a, b) == Rat(a.num * b.den - b.num * a.den, a.den * b.den)

RAdd(a, b) == Rat(a.num * b.den + b.num * a.den, a.den * b.den)

RScale(a, n, d) == Rat(a.num * n, a.den * d)

\* Python's min(a, b): b if b < a else a; max(a, b): b if b > a else a
PyMin(a, b) == IF RLess(b, a) THEN b ELSE a

PyMax(a, b) == IF RLess(a, b) THEN b ELSE a

RECURSIVE SumOf(_, _)
SumOf(seq, field) ==
    IF seq = << >> THEN 0 ELSE seq[1][field] + SumOf(Tail(seq), field)

Mean(seq, field) == Rat(SumOf(seq, field), Len(seq))

---------------------------------------------------------------------------
(* SegmentBuilder: AirQualityService._create_route_segments.               *)

\* RouteSegment(...): the validated model or ValidationError; air_quality
\* must be an AirQualityData
RouteSegment(start, end, distance, duration, air_quality, instructions) ==
    IF NonNegative(distance) /\ duration >= 0 /\ "air_quality_index" \in DOMAIN air_quality
    THEN Ok([start |-> start, end |-> end, distance |-> distance, duration |-> duration,
             air_quality |-> air_quality, instructions |-> instructions])
    ELSE Raise("ValidationError")

\* The iteration taking the sample of the segment's end coordinate
Segment_end_sample(coords, air_quality_data, i) ==
    LET start == coords[i + 1]
        end   == coords[i + 2]
        segment_air_quality ==
            IF i + 1 < Len(air_quality_data) THEN air_quality_data[i + 2]
            ELSE [bound_method |-> "_create_default_air_quality"]
        distance == calculate_distance(start.latitude, start.longitude,
                                       end.latitude, end.longitude)
    IN  IF ~ distance.ok THEN distance
        ELSE RouteSegment(start, end, distance.val, 5, segment_air_quality, i + 1)

\* The iteration of the for loop with index i (0-based).  Past the end of
\* air_quality_data the code takes self._create_default_air_quality without
\* calling it: the bound method, which RouteSegment rejects.
Segment(coords, air_quality_data, i) ==
    LET start == coords[i + 1]
        end   == coords[i + 2]
        segment_air_quality ==
            IF i < Len(air_quality_data) THEN air_quality_data[i + 1]
            ELSE [bound_method |-> "_create_default_air_quality"]
        distance == calculate_distance(start.latitude, start.longitude,
                                       end.latitude, end.longitude)
    IN  IF ~ distance.ok THEN distance
        ELSE RouteSegment(start, end, distance.val, 5, segment_air_quality, i + 1)

\* segments after the iterations 0..n-1, or the first exception raised
RECURSIVE SegmentLoop(_, _, _)
SegmentLoop(coords, air_quality_data, n) ==
    IF n <= 0 THEN Ok(<< >>)
    ELSE LET before == SegmentLoop(coords, air_quality_data, n - 1)
         IN  IF ~ before.ok THEN before
             ELSE LET seg == Segment(coords, air_quality_data, n - 1)
                  IN  IF seg.ok THEN Ok(Append(before.val, seg.val)) ELSE seg

create_route_segments(coords, air_quality_data) ==
    SegmentLoop(coords, air_quality_data, Len(coords) - 1)

---------------------------------------------------------------------------
(* RouteScorer: AirQualityService._calculate_route_scores.                 *)

RouteTypes == {"fastest", "shortest", "healthiest", "optimal"}

\* RouteInfo(...): the validated model or ValidationError
RouteInfo(route_id, type, travel_time_minutes, distance_km, average_aqi, air_quality_score, pollution_exposure, waypoints, segments, polyline) ==
    IF /\ type \in RouteTypes
       /\ travel_time_minutes >= 0
       /\ NonNegative(distance_km)
       /\ RLeq(Rat(0, 1), average_aqi) /\ RLeq(average_aqi, Rat(500, 1))
       /\ RLeq(Rat(0, 1), air_quality_score) /\ RLeq(air_quality_score, Rat(100, 1))
    THEN Ok([route_id |-> route_id, type |-> type,
             travel_time_minutes |-> travel_time_minutes, distance_km |-> distance_km,
             average_aqi |-> average_aqi, air_quality_score |-> air_quality_score,
             pollution_exposure |-> pollution_exposure, waypoints |-> waypoints,
             segments |-> segments, polyline |-> polyline])
    ELSE Raise("ValidationError")

\* The score without its clamp: 100 - (avg_aqi - 50) * 2
AirQualityScore_unclamped(avg_aqi) ==
    RSub(Rat(100, 1), RScale(RSub(avg_aqi, Rat(50, 1)), 2, 1))

\* The score falling by 4 for each point of the mean index above 50
AirQualityScore_slope_four(avg_aqi) ==
    PyMax(Rat(0, 1),
          PyMin(Rat(100, 1),
                RSub(Rat(100, 1), RScale(RSub(avg_aqi, Rat(50, 1)), 4, 1))))

\* max(0, min(100, 100 - (avg_aqi - 50) * 2))
AirQualityScore(avg_aqi) ==
    PyMax(Rat(0, 1),
          PyMin(Rat(100, 1),
                RSub(Rat(100, 1), RScale(RSub(avg_aqi, Rat(50, 1)), 2, 1))))

\* The body of the try for one route whose air_quality_data is not empty:
\* the entry appended to scored_routes, or the exception raised.
ScoreRoute(route) ==
    LET air_quality_data  == route["air_quality_data"]
        avg_aqi           == Mean(air_quality_data, "air_quality_index")
        air_quality_score == AirQualityScore(avg_aqi)
        pollution_exposure ==
            [pm25 |-> Mean(air_quality_data, "pm25"), pm10 |-> Mean(air_quality_data, "pm10"),
             o3 |-> Mean(air_quality_data, "o3"), no2 |-> Mean(air_quality_data, "no2")]
        segments == create_route_segments(Get(route, "sampled_coordinates", << >>),
                                          air_quality_data)
    IN  IF ~ segments.ok THEN segments
        ELSE IF ~ ({"route_id", "type", "duration", "distance", "polyline"}
                     \subseteq DOMAIN route)
        THEN Raise("KeyError")
        ELSE LET route_info ==
                     RouteInfo(route["route_id"], route["type"], route["duration"],
                               route["distance"], avg_aqi, air_quality_score,
                               pollution_exposure,
                               Get(route, "sampled_coordinates", << >>),
                               segments.val, route["polyline"])
             IN  IF ~ route_info.ok THEN route_info
                 ELSE Ok([route_info |-> route_info.val,
                          air_quality_score |-> air_quality_score,
                          duration |-> route["duration"],
                          distance |-> route["distance"]])

\* The loop leaving at the first route that raises: break for continue
RECURSIVE calculate_route_scores_break(_)
calculate_route_scores_break(routes) ==
    IF routes = << >> THEN << >>
    ELSE LET route == routes[1]
         IN  IF Get(route, "air_quality_data", << >>) = << >>
             THEN calculate_route_scores_break(Tail(routes))
             ELSE LET scored == ScoreRoute(route)
                  IN  IF scored.ok
                      THEN << scored.val >> \o calculate_route_scores_break(Tail(routes))
                      ELSE << >>

\* The loop giving a route without samples one default sample, not skipping it
RECURSIVE calculate_route_scores_default_for_empty(_)
calculate_route_scores_default_for_empty(routes) ==
    IF routes = << >> THEN << >>
    ELSE LET route  == routes[1]
             rest   == calculate_route_scores_default_for_empty(Tail(routes))
             filled == IF Get(route, "air_quality_data", << >>) # << >> THEN route
                       ELSE [k \in DOMAIN route \cup {"air_quality_data"} |->
                                IF k = "air_quality_data"
                                THEN << create_default_air_quality >>
                                ELSE route[k]]
             scored == ScoreRoute(filled)
         IN  IF scored.ok THEN << scored.val >> \o rest ELSE rest

\* for route in routes: skip a route without samples, and one that raises
RECURSIVE calculate_route_scores(_)
calculate_route_scores(routes) ==
    IF routes = << >> THEN << >>
    ELSE LET route == routes[1]
             rest  == calculate_route_scores(Tail(routes))
         IN  IF Get(route, "air_quality_data", << >>) = << >> THEN rest
             ELSE LET scored == ScoreRoute(route)
                  IN  IF scored.ok THEN << scored.val >> \o rest ELSE rest

---------------------------------------------------------------------------
(* Binary64 arithmetic of the scores, exact.  A natural number of any size *)
(* is a sequence of limbs, least significant first, each in 0..Base-1,     *)
(* with no zero limb at the top; a non-negative float is m * 2^e, held as  *)
(* [m |-> limbs, e |-> exponent].                                          *)

\* Bits of a limb
LimbBits == 12

Base == Pow2(LimbBits)

\* Significand bits of a Python float
Precision == 53

RECURSIVE BNorm(_)
BNorm(x) ==
    IF x = << >> THEN << >>
    ELSE IF x[Len(x)] = 0 THEN BNorm(SubSeq(x, 1, Len(x) - 1))
    ELSE x

RECURSIVE BFromInt(_)
BFromInt(n) == IF n = 0 THEN << >> ELSE << n % Base >> \o BFromInt(n \div Base)

RECURSIVE BAddC(_, _, _)
BAddC(x, y, c) ==
    IF x = << >> /\ y = << >> THEN BFromInt(c)
    ELSE LET a == IF x = << >> THEN 0 ELSE Head(x)
             b == IF y = << >> THEN 0 ELSE Head(y)
             s == a + b + c
         IN  << s % Base >> \o BAddC(IF x = << >> THEN x ELSE Tail(x),
                                     IF y = << >> THEN y ELSE Tail(y), s \div Base)

BAdd(x, y) == BAddC(x, y, 0)

\* x - y - borrow, for x >= y + borrow
RECURSIVE BSubB(_, _, _)
BSubB(x, y, borrow) ==
    IF x = << >> THEN << >>
    ELSE LET b == IF y = << >> THEN 0 ELSE Head(y)
             d == Head(x) - b - borrow
         IN  << IF d < 0 THEN d + Base ELSE d >>
             \o BSubB(Tail(x), IF y = << >> THEN y ELSE Tail(y), IF d < 0 THEN 1 ELSE 0)

BSub(x, y) == BNorm(BSubB(x, y, 0))

\* -1, 0, 1 as x < y, x = y, x > y
RECURSIVE BCmp(_, _)
BCmp(x, y) ==
    IF Len(x) # Len(y) THEN (IF Len(x) < Len(y) THEN -1 ELSE 1)
    ELSE IF x = << >> THEN 0
    ELSE IF x[Len(x)] # y[Len(y)] THEN (IF x[Len(x)] < y[Len(y)] THEN -1 ELSE 1)
    ELSE BCmp(SubSeq(x, 1, Len(x) - 1), SubSeq(y, 1, Len(y) - 1))

\* x * k + c for a small k
RECURSIVE BMulSmallC(_, _, _)
BMulSmallC(x, k, c) ==
    IF x = << >> THEN BFromInt(c)
    ELSE LET p == Head(x) * k + c
         IN  << p % Base >> \o BMulSmallC(Tail(x), k, p \div Base)

BMulSmall(x, k) == BNorm(BMulSmallC(x, k, 0))

\* x * Base^n
BShiftLimbs(x, n) == IF x = << >> THEN << >> ELSE [i \in 1..n |-> 0] \o x

RECURSIVE BMul(_, _)
BMul(x, y) ==
    IF y = << >> THEN << >>
    ELSE BAdd(BMulSmall(x, Head(y)), BShiftLimbs(BMul(x, Tail(y)), 1))

\* x * 2^s
BShl(x, s) == BShiftLimbs(BMulSmall(x, Pow2(s % LimbBits)), s \div LimbBits)

\* Quotient and remainder of x by a small d
RECURSIVE BDivMod(_, _)
BDivMod(x, d) ==
    IF x = << >> THEN [q |-> << >>, r |-> 0]
    ELSE LET high == BDivMod(Tail(x), d)
             cur  == high.r * Base + Head(x)
         IN  [q |-> << cur \div d >> \o high.q, r |-> cur % d]

\* floor(x / 2^s)
BShr(x, s) ==
    LET limbs == s \div LimbBits
    IN  IF limbs >= Len(x) THEN << >>
        ELSE BNorm(BDivMod(SubSeq(x, limbs + 1, Len(x)), Pow2(s % LimbBits)).q)

BBitLen(x) == IF x = << >> THEN 0 ELSE LimbBits * (Len(x) - 1) + BitLen(x[Len(x)])

BOdd(x) == x # << >> /\ x[1] % 2 = 1

\* w, after v has been evaluated.  TLC evaluates an argument where it is
\* first used, which may be deep inside the operator that uses it;
\* evaluating it on entry keeps the evaluation shallow.
After(v, w) == IF v = v THEN w ELSE w

\* The float q * 2^e or its successor: half is -1, 0 or 1 as what was cut
\* off below q is less than, equal to or more than half a unit of q
F64Nearest(q, e, half) ==
    [m |-> IF half = 1 \/ (half = 0 /\ BOdd(q)) THEN BAdd(q, << 1 >>) ELSE q, e |-> e]

\* The float nearest to n * 2^e with q = floor(n / 2^s)
F64RoundTo(n, e, s, q) ==
    After(q, F64Nearest(q, e + s, BCmp(BSub(n, BShl(q, s)), BShl(<< 1 >>, s - 1))))

\* The float nearest to n * 2^e, where n has s bits more than a mantissa
F64RoundBy(n, e, s) ==
    IF s <= 0 THEN [m |-> n, e |-> e] ELSE F64RoundTo(n, e, s, BShr(n, s))

\* The float nearest to n * 2^e, ties to even
F64Round(n, e) == After(n, F64RoundBy(n, e, BBitLen(n) - Precision))

\* float(k) for a small natural number k
F64FromInt(k) == [m |-> BFromInt(k), e |-> 0]

F64CmpAt(x, y, e) == BCmp(BShl(x.m, x.e - e), BShl(y.m, y.e - e))

\* -1, 0, 1 as x < y, x = y, x > y
F64Cmp(x, y) == After(x, After(y, F64CmpAt(x, y, IF x.e < y.e THEN x.e ELSE y.e)))

F64AddAt(x, y, e) == F64Round(BAdd(BShl(x.m, x.e - e), BShl(y.m, y.e - e)), e)

F64Add(x, y) == After(x, After(y, F64AddAt(x, y, IF x.e < y.e THEN x.e ELSE y.e)))

F64SubAt(x, y, e) == F64Round(BSub(BShl(x.m, x.e - e), BShl(y.m, y.e - e)), e)

\* x - y for x >= y
F64Sub(x, y) == After(x, After(y, F64SubAt(x, y, IF x.e < y.e THEN x.e ELSE y.e)))

F64Mul(x, y) == After(x, After(y, F64Round(BMul(x.m, y.m), x.e + y.e)))

\* The float nearest to (d.q + d.r / b) * 2^-66: d.q doubled, with a last
\* bit that is set when the division left a remainder
F64Inexact(d) ==
    After(d, F64Round(BAdd(BMulSmall(BNorm(d.q), 2), IF d.r = 0 THEN << >> ELSE << 1 >>), -67))

\* a / b for small natural numbers a and b > 0: from the quotient to 66
\* bits after the point
F64Div(a, b) == F64Inexact(BDivMod(BShl(BFromInt(a), 66), b))

\* The float nearest to (d.q + d.r / b) * 2^e: d.q doubled, with a last
\* bit that is set when the division left a remainder
F64InexactAt(d, e) ==
    After(d, F64Round(BAdd(BMulSmall(BNorm(d.q), 2), IF d.r = 0 THEN << >> ELSE << 1 >>),
                      e - 1))

\* x / b for a float x >= 0 and a small natural number b > 0
F64DivSmall(x, b) == After(x, F64InexactAt(BDivMod(BShl(x.m, 66), b), x.e - 66))

\* The value of a natural number below 2^31 held in limbs
RECURSIVE BToInt(_)
BToInt(x) == IF x = << >> THEN 0 ELSE Head(x) + Base * BToInt(Tail(x))

\* int(x) for a float x >= 0: the digits before the point
F64Int(x) == After(x, BToInt(IF x.e >= 0 THEN BShl(x.m, x.e) ELSE BShr(x.m, - x.e)))

---------------------------------------------------------------------------
(* RouteSelector: AirQualityService._determine_optimal_routes.             *)

None == [none |-> TRUE]

\* RouteResponse(success, message, total_routes, and the four optional routes)
RouteResponse(success, message, fastest, shortest, healthiest, optimal, total_routes) ==
    [success |-> success, message |-> message, fastest_route |-> fastest,
     shortest_route |-> shortest, healthiest_route |-> healthiest,
     optimal_route |-> optimal, total_routes |-> total_routes]

\* routes_by_type keeping the first route of a category: setdefault
RECURSIVE RoutesByType_first_wins(_, _, _)
RoutesByType_first_wins(scored, n, type) ==
    IF n = 0 THEN None
    ELSE LET before == RoutesByType_first_wins(scored, n - 1, type)
         IN  IF before # None THEN before
             ELSE IF scored[n].route_info.type = type THEN scored[n].route_info
             ELSE None

\* routes_by_type after the first n routes: the .get(type) of the dict
RECURSIVE RoutesByType(_, _, _)
RoutesByType(scored, n, type) ==
    IF n = 0 THEN None
    ELSE IF scored[n].route_info.type = type THEN scored[n].route_info
    ELSE RoutesByType(scored, n - 1, type)

\* The float that air_quality_score holds when its exact value is score:
\* max(0, min(100, 100 - (avg_aqi - 50) * 2)) with avg_aqi = sum / len in
\* binary64.  The clamped values are the integers 100 and 0; between them
\* the mean lies between 50 and 100.
Binary64Score(score) ==
    IF score = Rat(100, 1) THEN F64FromInt(100)
    ELSE IF score = Rat(0, 1) THEN F64FromInt(0)
    ELSE LET mean == RScale(RSub(Rat(200, 1), score), 1, 2)
         IN  F64Sub(F64FromInt(100),
                    F64Mul(F64Sub(F64Div(mean.num, mean.den), F64FromInt(50)),
                           F64FromInt(2)))

\* time_score = max(0, 100 - route["duration"] * 2)
TimeScore(route) == IF 100 - route.duration * 2 > 0 THEN 100 - route.duration * 2 ELSE 0

\* combined_score = route["air_quality_score"] * 0.7 + time_score * 0.3
CombinedScore(route) ==
    F64Add(F64Mul(Binary64Score(route.air_quality_score), F64Div(7, 10)),
           F64Mul(F64FromInt(TimeScore(route)), F64Div(3, 10)))

\* best_score = -1
MinusOne == [minus |-> 1]

\* The comparison of a loop that starts from best_score = 0
Exceeds_from_zero(combined_score, best_score) ==
    F64Cmp(combined_score,
           IF best_score = MinusOne THEN F64FromInt(0) ELSE best_score) = 1

\* combined_score > best_score
Exceeds(combined_score, best_score) ==
    best_score = MinusOne \/ F64Cmp(combined_score, best_score) = 1

\* One iteration of the second loop
Better(before, route, combined_score) ==
    IF Exceeds(combined_score, before.best_score)
    THEN [best_score |-> combined_score, optimal_route |-> route.route_info]
    ELSE before

\* (best_score, optimal_route) after the first n routes of the second loop
RECURSIVE BestRoute(_, _)
BestRoute(scored, n) ==
    IF n = 0 THEN [best_score |-> MinusOne, optimal_route |-> None]
    ELSE Better(BestRoute(scored, n - 1), scored[n], CombinedScore(scored[n]))

\* The selection without the guard for an empty list
determine_optimal_routes_unguarded(scored) ==
    RouteResponse(TRUE, "calculated",
                  RoutesByType(scored, Len(scored), "fastest"),
                  RoutesByType(scored, Len(scored), "shortest"),
                  RoutesByType(scored, Len(scored), "healthiest"),
                  BestRoute(scored, Len(scored)).optimal_route,
                  Len(scored))

\* The selection reporting the number of filled category slots as
\* total_routes
determine_optimal_routes_counts_slots(scored) ==
    IF scored = << >>
    THEN RouteResponse(FALSE, "no_valid_routes", None, None, None, None, 0)
    ELSE RouteResponse(TRUE, "calculated",
                       RoutesByType(scored, Len(scored), "fastest"),
                       RoutesByType(scored, Len(scored), "shortest"),
                       RoutesByType(scored, Len(scored), "healthiest"),
                       BestRoute(scored, Len(scored)).optimal_route,
                       Cardinality({ scored[k].route_info.type : k \in 1..Len(scored) }))

determine_optimal_routes(scored) ==
    IF scored = << >>
    THEN RouteResponse(FALSE, "no_valid_routes", None, None, None, None, 0)
    ELSE RouteResponse(TRUE, "calculated",
                       RoutesByType(scored, Len(scored), "fastest"),
                       RoutesByType(scored, Len(scored), "shortest"),
                       RoutesByType(scored, Len(scored), "healthiest"),
                       BestRoute(scored, Len(scored)).optimal_route,
                       Len(scored))

---------------------------------------------------------------------------
(* The route-logic service (services/route-logic/main.py).  Its samples    *)
(* are dicts; a score is held as an exact rational.                        *)

\* sum(data.get("pm25", 25.0) for the first n samples), in hundredths
RECURSIVE SumPm25(_, _)
SumPm25(air_quality_data, n) ==
    IF n = 0 THEN 0
    ELSE SumPm25(air_quality_data, n - 1) + Get(air_quality_data[n], "pm25", 2500)

\* round(score, 2) of a score that is not negative: the nearest hundredth,
\* the even one of two equally near
Round2(score) ==
    LET q == (score.num * 100) \div score.den
        r == (score.num * 100) % score.den
    IN  Rat(IF 2 * r > score.den \/ (2 * r = score.den /\ q % 2 = 1) THEN q + 1 ELSE q, 100)

\* calculate_route_air_quality_score(air_quality_data)
calculate_route_air_quality_score(air_quality_data) ==
    IF air_quality_data = << >> THEN Rat(50, 1)
    ELSE LET avg_pm25 == Rat(SumPm25(air_quality_data, Len(air_quality_data)),
                             100 * Len(air_quality_data))
         IN  Round2(PyMax(Rat(0, 1),
                          PyMin(Rat(100, 1),
                                RSub(Rat(100, 1),
                                     RScale(RSub(avg_pm25, Rat(15, 1)), 2, 1)))))

\* Coordinates of route-logic are held in units of 0.0001 degree.
\* num_intermediate_points = 5
NumIntermediatePoints == 5

\* The 0.001 degree of the matching, in units of 0.0001 degree
MatchUnits == 10

\* process_route: waypoints = [start] + the points at the ratios 1/5 .. 4/5
\* + [end]; the pairs of the model put them on the grid
ProcessRouteWaypoints(start, end) ==
    [k \in 1..(NumIntermediatePoints + 1) |->
        IF k = NumIntermediatePoints + 1 THEN end
        ELSE [latitude |-> start.latitude
                  + ((end.latitude - start.latitude) * (k - 1)) \div NumIntermediatePoints,
              longitude |-> start.longitude
                  + ((end.longitude - start.longitude) * (k - 1)) \div NumIntermediatePoints]]

\* create_default_air_quality(coord) of route-logic
route_logic_create_default_air_quality(coord) ==
    [latitude |-> coord.latitude, longitude |-> coord.longitude,
     pm25 |-> 2500, pm10 |-> 4000, o3 |-> 5, no2 |-> 2,
     air_quality_index |-> 50, grade |-> "moderate", confidence |-> 50]

\* abs(aq_data["latitude"] - start.latitude) < 0.001 and
\* abs(aq_data["longitude"] - start.longitude) < 0.001
Near(aq_data, start) ==
    /\ Abs(aq_data.latitude - start.latitude) < MatchUnits
    /\ Abs(aq_data.longitude - start.longitude) < MatchUnits

\* The inner for loop from the k-th prediction on: the first prediction
\* near start, or None
RECURSIVE FirstNear(_, _, _)
FirstNear(air_quality_data, start, k) ==
    IF k > Len(air_quality_data) THEN None
    ELSE IF Near(air_quality_data[k], start) THEN air_quality_data[k]
    ELSE FirstNear(air_quality_data, start, k + 1)

\* The float pydantic makes of a value of Dict[str, float]: a number stays,
\* a string is parsed, and a word is rejected.  Grades are strings.
FloatOfGrade(grade) ==
    IF grade = "1" THEN Ok(100)
    ELSE IF grade = "2" THEN Ok(200)
    ELSE Raise("ValidationError")

\* RouteSegment(start=..., end=..., distance=..., duration=5, air_quality=...,
\* instructions=...) of route-logic, air_quality: Dict[str, float].  The
\* distance is left out: calculate_distance raises for antipodes only.
RouteLogicRouteSegment(start, end, picked, i) ==
    IF ~ FloatOfGrade(picked.grade).ok THEN Raise("ValidationError")
    ELSE Ok([start |-> start, end |-> end, duration |-> 5,
             air_quality |-> [pm25 |-> picked.pm25, pm10 |-> picked.pm10,
                              o3 |-> picked.o3, no2 |-> picked.no2,
                              air_quality_index |-> picked.air_quality_index,
                              grade |-> FloatOfGrade(picked.grade).val],
             instructions |-> i])

\* segment_air_quality of one iteration: the prediction found, or the default
SegmentAirQuality(found, start) ==
    IF found = None THEN route_logic_create_default_air_quality(start) ELSE found

\* create_route_segments of route-logic after the first n iterations
RECURSIVE RouteLogicSegments(_, _, _)
RouteLogicSegments(waypoints, air_quality_data, n) ==
    IF n = 0 THEN Ok(<< >>)
    ELSE LET before == RouteLogicSegments(waypoints, air_quality_data, n - 1)
             segment ==
                 RouteLogicRouteSegment(
                     waypoints[n], waypoints[n + 1],
                     SegmentAirQuality(FirstNear(air_quality_data, waypoints[n], 1),
                                       waypoints[n]),
                     n)
         IN  IF ~ before.ok THEN before
             ELSE IF ~ segment.ok THEN segment
             ELSE Ok(Append(before.val, segment.val))

\* create_route_segments(waypoints, air_quality_data) of route-logic
route_logic_create_route_segments(waypoints, air_quality_data) ==
    IF waypoints = << >> THEN Ok(<< >>)
    ELSE RouteLogicSegments(waypoints, air_quality_data, Len(waypoints) - 1)

\* generate_dummy_routes(start, end) of route-logic
route_logic_generate_dummy_routes(start, end) ==
    << [route_id |-> "route_001", type |-> "fastest",
        distance |-> [kind |-> "haversine", times10 |-> 11], duration |-> 25,
        polyline |-> "dummy_polyline_fastest", waypoints |-> << start, end >>],
       [route_id |-> "route_002", type |-> "shortest",
        distance |-> [kind |-> "haversine", times10 |-> 10], duration |-> 35,
        polyline |-> "dummy_polyline_shortest", waypoints |-> << start, end >>],
       [route_id |-> "route_003", type |-> "healthiest",
        distance |-> [kind |-> "haversine", times10 |-> 13], duration |-> 45,
        polyline |-> "dummy_polyline_healthiest", waypoints |-> << start, end >>] >>

\* f"route_{i+1}" for the i-th route (1-based here) of the map API's answer
KakaoRouteId(i) ==
    CASE i = 1 -> "route_1" [] i = 2 -> "route_2" [] i = 3 -> "route_3"
      [] OTHER -> "route_n"

\* ["fastest", "shortest", "healthiest"][i % 3], i counted from 1 here
KakaoRouteType(i) == << "fastest", "shortest", "healthiest" >>[((i - 1) % 3) + 1]

\* The route built from the i-th route object of the answer, an object
\* without the keys distance, duration, polyline and waypoints
KakaoRoute(i) ==
    [route_id |-> KakaoRouteId(i), type |-> KakaoRouteType(i),
     distance |-> [kind |-> "number", value |-> 1000 + (i - 1) * 500],
     duration |-> 600 + (i - 1) * 300,
     polyline |-> "dummy_polyline", waypoints |-> << >>]

\* fetch_routes_from_kakao(start, end), given the map API's reply
fetch_routes_from_kakao(start, end, reply) ==
    IF reply.kind = "exception" THEN route_logic_generate_dummy_routes(start, end)
    ELSE IF reply.status_code # 200 THEN route_logic_generate_dummy_routes(start, end)
    ELSE IF reply.routes = 0 THEN route_logic_generate_dummy_routes(start, end)
    ELSE [i \in 1..reply.routes |-> KakaoRoute(i)]

\* round(mean, 3) of a mean that is not negative, held in hundredths
Round3(mean) ==
    LET q == (mean.num * 10) \div mean.den
        r == (mean.num * 10) % mean.den
    IN  Rat(IF 2 * r > mean.den \/ (2 * r = mean.den /\ q % 2 = 1) THEN q + 1 ELSE q, 10)

\* RouteInfo(...) of process_route, given its air_quality_data and segments
ProcessedRouteInfo(route_data, waypoints, air_quality_data, segments) ==
    [route_id |-> route_data.route_id,
     type |-> route_data.type,
     summary |->
        [duration |-> route_data.duration,
         distance |-> [round2 |-> route_data.distance],
         air_quality_score |-> calculate_route_air_quality_score(air_quality_data),
         pollution_exposure |->
            [pm25 |-> Round2(Rat(SumOf(air_quality_data, "pm25"),
                                 100 * Len(air_quality_data))),
             pm10 |-> Round2(Rat(SumOf(air_quality_data, "pm10"),
                                 100 * Len(air_quality_data))),
             o3 |-> Round3(Mean(air_quality_data, "o3"))]],
     waypoints |-> waypoints,
     segments |-> segments,
     polyline |-> route_data.polyline]

\* The rest of process_route once the predictions are there: the RouteInfo,
\* or the exception of create_route_segments, raised again by the handler
ProcessWith(route_data, waypoints, air_quality_data, segments) ==
    IF ~ segments.ok THEN segments
    ELSE Ok(ProcessedRouteInfo(route_data, waypoints, air_quality_data, segments.val))

\* process_route(route_data, start, end), given what the oracle answers
\* for its waypoints
process_route(route_data, waypoints, air_quality_data) ==
    ProcessWith(route_data, waypoints, air_quality_data,
                route_logic_create_route_segments(waypoints, air_quality_data))

\* [route for route in route_data_list if route["type"] in requested_types]
FilteredRoutes(route_data_list, requested_types) ==
    SelectSeq(route_data_list,
              LAMBDA route : \E k \in 1..Len(requested_types) :
                                route.type = requested_types[k])

\* valid_routes: the results of gather that are no exceptions, in order
RECURSIVE ValidRoutes(_, _)
ValidRoutes(gathered, n) ==
    IF n = 0 THEN << >>
    ELSE IF gathered[n].ok
    THEN Append(ValidRoutes(gathered, n - 1), gathered[n].val)
    ELSE ValidRoutes(gathered, n - 1)

\* A route put into a list sorted by falling score, behind the routes of
\* the same score
RECURSIVE InsertByScore(_, _)
InsertByScore(sorted, route) ==
    IF sorted = << >> THEN << route >>
    ELSE IF RLess(Head(sorted).summary.air_quality_score, route.summary.air_quality_score)
    THEN << route >> \o sorted
    ELSE << Head(sorted) >> \o InsertByScore(Tail(sorted), route)

\* valid_routes.sort(key=lambda x: x.summary["air_quality_score"],
\* reverse=True): by falling score, routes of equal score in their order
RECURSIVE SortByScore(_, _)
SortByScore(valid_routes, n) ==
    IF n = 0 THEN << >>
    ELSE InsertByScore(SortByScore(valid_routes, n - 1), valid_routes[n])

\* RouteResponse(success=True, routes=valid_routes, ...) of route-logic
RouteLogicResponse(valid_routes) ==
    [success |-> TRUE, routes |-> valid_routes, message |-> Len(valid_routes)]

\* The handlers calculate_routes and calculate_routes_post from the list of
\* requested types on; answers[k] is the air_quality_data of the k-th
\* filtered route
calculate_routes(start, end, requested_types, reply, answers) ==
    LET filtered_routes ==
            FilteredRoutes(fetch_routes_from_kakao(start, end, reply), requested_types)
        results ==
            [k \in 1..Len(filtered_routes) |->
                process_route(filtered_routes[k], ProcessRouteWaypoints(start, end),
                              answers[k])]
    IN  Ok(RouteLogicResponse(
               SortByScore(ValidRoutes(results, Len(results)),
                           Len(ValidRoutes(results, Len(results))))))

---------------------------------------------------------------------------
(* The AI prediction service (services/ai-prediction/main.py).  PM2.5      *)
(* values are binary64 floats.                                             *)

\* base + slope * (pm25 - from) / width, as int() truncates it
AqiPiece(pm25, base, slope, from, width) ==
    F64Int(F64Add(F64FromInt(base),
                  F64DivSmall(F64Mul(F64FromInt(slope), F64Sub(pm25, F64FromInt(from))),
                              width)))

\* calculate_aqi with the last piece three times as steep
calculate_aqi_steep(pm25) ==
    IF F64Cmp(pm25, F64FromInt(15)) <= 0
    THEN F64Int(F64DivSmall(F64Mul(F64FromInt(50), pm25), 15))
    ELSE IF F64Cmp(pm25, F64FromInt(35)) <= 0 THEN AqiPiece(pm25, 50, 50, 15, 20)
    ELSE IF F64Cmp(pm25, F64FromInt(75)) <= 0 THEN AqiPiece(pm25, 100, 50, 35, 40)
    ELSE IF F64Cmp(pm25, F64FromInt(150)) <= 0 THEN AqiPiece(pm25, 150, 50, 75, 75)
    ELSE AqiPiece(pm25, 200, 300, 150, 150)

\* calculate_aqi(pm25)
calculate_aqi(pm25) ==
    IF F64Cmp(pm25, F64FromInt(15)) <= 0
    THEN F64Int(F64DivSmall(F64Mul(F64FromInt(50), pm25), 15))
    ELSE IF F64Cmp(pm25, F64FromInt(35)) <= 0 THEN AqiPiece(pm25, 50, 50, 15, 20)
    ELSE IF F64Cmp(pm25, F64FromInt(75)) <= 0 THEN AqiPiece(pm25, 100, 50, 35, 40)
    ELSE IF F64Cmp(pm25, F64FromInt(150)) <= 0 THEN AqiPiece(pm25, 150, 50, 75, 75)
    ELSE AqiPiece(pm25, 200, 100, 150, 150)

\* What pickle.load, joblib.load and the dummy constructors return
Object(name) == [object |-> name]

\* How a call of load_model goes: whether loading or creating the model
\* raises, and whether loading or creating the scaler does
LoadOutcomes ==
    { [model_raises |-> TRUE, scaler_raises |-> FALSE],
      [model_raises |-> FALSE, scaler_raises |-> TRUE],
      [model_raises |-> FALSE, scaler_raises |-> FALSE] }

\* load_model leaving model_loaded as it is when it fails
load_model_keeps_flag(globals, outcome) ==
    IF outcome.model_raises
    THEN [globals EXCEPT !.raised = TRUE]
    ELSE IF outcome.scaler_raises
    THEN [globals EXCEPT !.model = Object("model"), !.raised = TRUE]
    ELSE [model |-> Object("model"), scaler |-> Object("scaler"), model_loaded |-> TRUE,
          raised |-> FALSE]

\* load_model(): the globals after the call and whether it raised.  The
\* model is assigned before the scaler is loaded; the handler sets
\* model_loaded = False and raises again.
load_model(globals, outcome) ==
    IF outcome.model_raises
    THEN [globals EXCEPT !.model_loaded = FALSE, !.raised = TRUE]
    ELSE IF outcome.scaler_raises
    THEN [globals EXCEPT !.model = Object("model"), !.model_loaded = FALSE, !.raised = TRUE]
    ELSE [model |-> Object("model"), scaler |-> Object("scaler"), model_loaded |-> TRUE,
          raised |-> FALSE]

\* raise HTTPException(status_code=500, ...)
HTTP500 == Raise("HTTPException(status_code=500)")

\* preprocess_input_data(...): now.day_of_week is no attribute of
\* datetime.datetime, so the try raises AttributeError and the handler
\* turns it into HTTPException(500)
preprocess_input_data == HTTP500

\* predict_air_quality(...) for prediction_hours >= 1, given the prediction
\* of the model: every exception becomes HTTPException(500)
predict_air_quality(loaded, the_model, prediction) ==
    IF ~ loaded \/ the_model = None THEN HTTP500
    ELSE IF ~ preprocess_input_data.ok THEN HTTP500
    ELSE Ok(<< [air_quality_index |-> calculate_aqi(prediction)] >>)

\* predict_air_quality_endpoint(request): the response, or the
\* HTTPException raised
predict_air_quality_endpoint(loaded, the_model, prediction) ==
    IF ~ loaded THEN HTTP500
    ELSE IF ~ predict_air_quality(loaded, the_model, prediction).ok THEN HTTP500
    ELSE Ok([success |-> TRUE,
             predictions |-> predict_air_quality(loaded, the_model, prediction).val])

---------------------------------------------------------------------------
(* Inputs: places, requests, what the map API and the oracle may answer.   *)

SeqsUpTo(S, n) == UNION { [1..k -> S] : k \in 0..n }

\* A waypoint of the map API's JSON, from halves of a degree
Waypoint(lat2, lon2) == [latitude |-> Deg2(lat2), longitude |-> Deg2(lon2)]

\* route_types: Optional[str] = "fastest,shortest,healthiest", held as the
\* sequence of its comma-separated names
DefaultRouteTypes == << "fastest", "shortest", "healthiest" >>

Request(from, to, route_types) ==
    [start_lat |-> from.latitude, start_lon |-> from.longitude,
     end_lat |-> to.latitude, end_lon |-> to.longitude,
     route_types |-> route_types]

\* (37.5, 127.0) -> (38.0, 127.5), every category;
\* (2.5, 0.0) -> (-2.5, 180.0), antipodes, the category healthiest only
Requests ==
    { Request(Waypoint(75, 254), Waypoint(76, 255), DefaultRouteTypes),
      Request(Waypoint(5, 0), Waypoint(-5, 360), << "healthiest" >>) }

IsAntipodal(req) == Antipodal(req.start_lat, req.start_lon, req.end_lat, req.end_lon)

\* Candidates the map API may return for a request: every shape for the
\* ordinary request, the good one for the antipodal request
CandidatePool(req) ==
    LET wp   == RequestWaypoints(req)
        good == [route_id |-> "k1", type |-> "fastest", distance |-> Km(12), duration |-> 20,
                 polyline |-> "p1", waypoints |-> wp]
    IN  IF IsAntipodal(req) THEN { good }
        ELSE
        { good,
          \* three waypoints, through (37.5, -100.5)
          [good EXCEPT !.route_id = "k2", !.type = "shortest", !.distance = Km(9),
                       !.duration = 30,
                       !.waypoints = << wp[1], Waypoint(75, -201), wp[2] >>],
          \* a second route of the category fastest
          [good EXCEPT !.route_id = "k3", !.duration = 40],
          \* a single waypoint
          [good EXCEPT !.route_id = "k4", !.waypoints = << wp[1] >>],
          \* a waypoint without latitude
          [good EXCEPT !.route_id = "k5",
                       !.waypoints = << wp[1], [longitude |-> wp[2].longitude] >>],
          \* a category RouteInfo rejects
          [good EXCEPT !.route_id = "k6", !.type = "scenic"] }

MapReplies(req) ==
    { [kind |-> "exception"],
      [kind |-> "response", status_code |-> 503],
      [kind |-> "response", status_code |-> 200, parses |-> FALSE],
      [kind |-> "response", status_code |-> 200, parses |-> TRUE, is_object |-> FALSE],
      [kind |-> "response", status_code |-> 200, parses |-> TRUE, is_object |-> TRUE,
       json |-> [status |-> "ok"]],
      [kind |-> "response", status_code |-> 200, parses |-> TRUE, is_object |-> TRUE,
       json |-> [routes |-> PyNumber(7)]] }
    \cup
    { [kind |-> "response", status_code |-> 200, parses |-> TRUE, is_object |-> TRUE,
       json |-> [routes |-> PyList(l)]] : l \in SeqsUpTo(CandidatePool(req), MaxCandidates) }

\* A prediction of the oracle with every field, for an index
Prediction(aqi) ==
    [predicted_pm25 |-> 1200, predicted_pm10 |-> 3000, predicted_o3 |-> 3,
     predicted_no2 |-> 1, air_quality_index |-> aqi, grade |-> "good", confidence |-> 90]

OracleOk(data) ==
    [kind |-> "response", status_code |-> 200, parses |-> TRUE, json |-> data]

Estimate(aqi) == OracleOk([success |-> TRUE, predictions |-> << Prediction(aqi) >>])

\* Every shape of reply of the AI prediction service
OracleReplies ==
    { [kind |-> "exception"],
      [kind |-> "response", status_code |-> 500],
      [kind |-> "response", status_code |-> 200, parses |-> FALSE],
      OracleOk([success |-> FALSE, predictions |-> << Prediction(30) >>]),
      OracleOk([predictions |-> << Prediction(30) >>]),
      OracleOk([success |-> TRUE, predictions |-> << >>]),
      OracleOk([success |-> TRUE]),
      Estimate(0), Estimate(120), Estimate(500),
      OracleOk([success |-> TRUE, predictions |-> << Prediction(80), Prediction(90) >>]),
      \* a prediction without index and confidence
      OracleOk([success |-> TRUE,
                predictions |-> << [predicted_pm25 |-> 1200, predicted_pm10 |-> 3000,
                                    predicted_o3 |-> 3, predicted_no2 |-> 1,
                                    grade |-> "good"] >>]),
      \* a prediction with the values 25.0, 40.0, 0.05, 0.02, 50, moderate, 0.5
      OracleOk([success |-> TRUE,
                predictions |-> << [predicted_pm25 |-> 2500, predicted_pm10 |-> 4000,
                                    predicted_o3 |-> 5, predicted_no2 |-> 2,
                                    air_quality_index |-> 50, grade |-> "moderate",
                                    confidence |-> 50] >>]),
      \* predictions AirQualityData rejects
      Estimate(600),
      OracleOk([success |-> TRUE,
                predictions |-> << [Prediction(40) EXCEPT !.predicted_pm25 = -100] >>]) }

\* Behaviours of the oracle during one request of get_recommended_routes;
\* "any" leaves every call free.
OracleModes == {"clean", "flaky", "varied", "down", "no_client"}

\* The replies the oracle may give to call k (1-based) for candidate c
RepliesOf(mode, c, k) ==
    CASE mode = "any"    -> OracleReplies
      [] mode = "clean"  -> { Estimate(0) }
      [] mode = "flaky"  -> IF k % 2 = 1 THEN { [kind |-> "exception"] }
                            ELSE { Estimate(120) }
      [] mode = "varied" -> IF c = 1 THEN { Estimate(58) } ELSE { Estimate(500) }
      [] OTHER           -> { [kind |-> "exception"] }

\* Whether entering, and leaving, "async with httpx.AsyncClient" may raise
ClientEnterRaises(mode) ==
    CASE mode = "any" -> BOOLEAN
      [] mode = "no_client" -> {TRUE}
      [] OTHER -> {FALSE}

ClientExitRaises(mode) == IF mode = "any" THEN BOOLEAN ELSE {FALSE}

---------------------------------------------------------------------------
(* Initial states: a call of one method.                                   *)

Idle ==
    /\ route_candidates = << >> /\ cand = 0
    /\ coordinates = << >> /\ predictions = << >> /\ replies = << >> /\ posted = << >>
    /\ clientError = "none"
    /\ mapReply = None
    /\ processed_routes = << >> /\ scored_routes = << >>
    /\ cancelled = FALSE
    /\ model = None /\ scaler = None /\ model_loaded = FALSE /\ history = << >>
    /\ result = None

NoRequest == Request(Waypoint(0, 0), Waypoint(0, 0), DefaultRouteTypes)

\* await service.get_recommended_routes(request)
InitRecommend ==
    /\ entry = "get_recommended_routes" /\ pc = "fetch"
    /\ request \in Requests
    /\ libmRoundsUp \in (IF IsAntipodal(request) THEN BOOLEAN ELSE {FALSE})
    /\ oracleMode \in OracleModes
    /\ args = None
    /\ Idle

\* await service._fetch_route_candidates(request), the map API's reply in args
InitFetch ==
    /\ entry = "_fetch_route_candidates" /\ pc = "call"
    /\ request \in Requests
    /\ libmRoundsUp \in (IF IsAntipodal(request) THEN BOOLEAN ELSE {FALSE})
    /\ oracleMode = "any"
    /\ args \in MapReplies(request)
    /\ Idle

\* Waypoints of the map API's JSON: (37.5, 127.0), (38.0, 127.5),
\* (37.5, -100.5), (37.5, 101.0), (-89.5, 0.0), (90.0, 0.0), one without latitude
SamplerWaypoints ==
    { Waypoint(75, 254), Waypoint(76, 255), Waypoint(75, -201), Waypoint(75, 202),
      Waypoint(-179, 0), Waypoint(180, 0), [longitude |-> Deg2(254)] }

SamplerCounts == {1, 2, 3, NumSamples}

\* service._sample_route_coordinates(waypoints, num_samples)
InitSample ==
    /\ entry = "_sample_route_coordinates" /\ pc = "call"
    /\ request = NoRequest /\ libmRoundsUp = FALSE /\ oracleMode = "any"
    /\ args \in [waypoints : SeqsUpTo(SamplerWaypoints, MaxLen), num_samples : SamplerCounts]
    /\ Idle

\* Validated coordinates: (37.5, 127.0), (38.0, 127.5), (2.5, 0.0), (-2.5, 180.0)
Coordinates ==
    { Coordinate(Deg2(75), Deg2(254)).val, Coordinate(Deg2(76), Deg2(255)).val,
      Coordinate(Deg2(5), Deg2(0)).val, Coordinate(Deg2(-5), Deg2(360)).val }

\* n of the coordinates sampled between (37.5, 127.0) and (38.0, 127.5):
\* the first, the fourth, the seventh, ...
SomeCoordinates(n) ==
    LET sampled == sample_route_coordinates(<< Waypoint(75, 254), Waypoint(76, 255) >>,
                                            NumSamples).val
    IN  [k \in 1..n |-> sampled[((3 * k - 3) % NumSamples) + 1]]

\* await service._get_air_quality_predictions(coordinates)
InitPredict ==
    /\ entry = "_get_air_quality_predictions" /\ pc = "aq_enter"
    /\ request = NoRequest /\ libmRoundsUp = FALSE /\ oracleMode = "any"
    /\ args = None
    /\ route_candidates = << >> /\ cand = 0
    /\ coordinates \in { SomeCoordinates(n) : n \in 0..MaxCalls }
    /\ predictions = << >> /\ replies = << >> /\ posted = << >> /\ clientError = "none"
    /\ mapReply = None
    /\ processed_routes = << >> /\ scored_routes = << >>
    /\ cancelled = FALSE /\ result = None
    /\ model = None /\ scaler = None /\ model_loaded = FALSE /\ history = << >>

HasAntipodes(coords) ==
    \E k \in 1..(Len(coords) - 1) :
        Antipodal(coords[k].latitude, coords[k].longitude,
                  coords[k + 1].latitude, coords[k + 1].longitude)

\* Samples with the indices 0, 50, 60, 75, 100, 500
Samples ==
    { create_default_air_quality }
    \cup { ReplyEstimate(Estimate(aqi)).val : aqi \in {0, 60, 75, 100, 500} }

\* service._create_route_segments(coordinates, air_quality_data), with no
\* sample, a sample for each segment or a sample for each coordinate; the
\* k-th sample has the index 10 * k
InitSegments ==
    /\ entry = "_create_route_segments" /\ pc = "call"
    /\ request = NoRequest /\ oracleMode = "any"
    /\ \E coords \in SeqsUpTo(Coordinates, MaxLen) :
         /\ libmRoundsUp \in (IF HasAntipodes(coords) THEN BOOLEAN ELSE {FALSE})
         /\ \E n \in {0, Len(coords) - 1, Len(coords)} \cap Nat :
              args = [coordinates |-> coords,
                      air_quality_data |->
                          [k \in 1..n |-> ReplyEstimate(Estimate(10 * k)).val]]
    /\ Idle

\* A route as _process_route_candidate leaves it, with the given samples
ProcessedRoute(samples) ==
    [route_id |-> "k1", type |-> "fastest", distance |-> Km(12), duration |-> 20,
     polyline |-> "p1", waypoints |-> << Waypoint(75, 254), Waypoint(76, 255) >>,
     sampled_coordinates |-> SomeCoordinates(Len(samples)),
     air_quality_data |-> samples]

\* await service._calculate_route_scores(routes)
InitScores ==
    /\ entry = "_calculate_route_scores" /\ pc = "call"
    /\ request = NoRequest /\ libmRoundsUp = FALSE /\ oracleMode = "any"
    /\ args \in { << ProcessedRoute(samples) >> : samples \in SeqsUpTo(Samples, MaxLen) }
    /\ Idle

\* An entry of scored_routes with the given air quality score and duration,
\* as _calculate_route_scores appends it
ScoredRoute(route_id, type, air_quality_score, duration) ==
    LET avg_aqi == RScale(RSub(Rat(200, 1), Rat(air_quality_score, 1)), 1, 2)
    IN  [route_info |->
             RouteInfo(route_id, type, duration, Km(5), avg_aqi, Rat(air_quality_score, 1),
                       [pm25 |-> Rat(2500, 1), pm10 |-> Rat(4000, 1),
                        o3 |-> Rat(5, 1), no2 |-> Rat(2, 1)],
                       << >>, << >>, "p").val,
         air_quality_score |-> Rat(air_quality_score, 1),
         duration |-> duration,
         distance |-> Km(5)]

\* Scored routes: a (fastest, 94, 1 min), b (shortest, 100, 8 min),
\* c (fastest, 100, 8 min), d (healthiest, 0, 60 min), e (healthiest, 100, 25 min)
ScoredPool ==
    { ScoredRoute("a", "fastest", 94, 1), ScoredRoute("b", "shortest", 100, 8),
      ScoredRoute("c", "fastest", 100, 8), ScoredRoute("d", "healthiest", 0, 60),
      ScoredRoute("e", "healthiest", 100, 25) }

\* service._determine_optimal_routes(scored_routes)
InitSelect ==
    /\ entry = "_determine_optimal_routes" /\ pc = "call"
    /\ request = NoRequest /\ libmRoundsUp = FALSE /\ oracleMode = "any"
    /\ args \in SeqsUpTo(ScoredPool, MaxLen)
    /\ Idle

\* calculate_route_air_quality_score(air_quality_data) of route-logic
InitRouteLogicScore ==
    /\ entry = "calculate_route_air_quality_score" /\ pc = "call"
    /\ request = NoRequest /\ libmRoundsUp = FALSE /\ oracleMode = "any"
    /\ args \in SeqsUpTo(Samples, MaxLen)
    /\ Idle

\* Start and end of route-logic requests, in units of 0.0001 degree:
\* (37.5, 127.0) -> (38.0, 127.5), and (37.5, 127.0) -> (37.502, 127.002)
\* whose waypoints are 0.0004 degree apart
RouteLogicPairs ==
    { [start |-> [latitude |-> 375000, longitude |-> 1270000],
       end   |-> [latitude |-> 380000, longitude |-> 1275000]],
      [start |-> [latitude |-> 375000, longitude |-> 1270000],
       end   |-> [latitude |-> 375020, longitude |-> 1270020]] }

\* Grades the predictions may carry: words, as the AI prediction service
\* emits them, and strings that parse as a float
RouteLogicGrades == {"good", "moderate", "1", "2"}

\* The prediction get_air_quality_predictions builds for the k-th waypoint
\* from an answer of the oracle with the index 10 * k
RouteLogicPrediction(coord, k, grade) ==
    [latitude |-> coord.latitude, longitude |-> coord.longitude,
     pm25 |-> 1200, pm10 |-> 3000, o3 |-> 3, no2 |-> 1,
     air_quality_index |-> 10 * k, grade |-> grade, confidence |-> 90]

\* air_quality_data of process_route when every oracle call is answered
RouteLogicPredictions(waypoints, grade) ==
    [k \in 1..Len(waypoints) |-> RouteLogicPrediction(waypoints[k], k, grade)]

\* create_route_segments(waypoints, air_quality_data) of route-logic, as
\* process_route applies it
InitRouteLogicSegments ==
    /\ entry = "create_route_segments" /\ pc = "call"
    /\ request = NoRequest /\ libmRoundsUp = FALSE /\ oracleMode = "any"
    /\ \E pair \in RouteLogicPairs, grade \in RouteLogicGrades :
         args = [waypoints |-> ProcessRouteWaypoints(pair.start, pair.end),
                 air_quality_data |->
                     RouteLogicPredictions(ProcessRouteWaypoints(pair.start, pair.end),
                                           grade)]
    /\ Idle

\* What the map API answers route-logic: no answer, a failure status, or
\* 200 with a number of route objects
KakaoReplies ==
    { [kind |-> "exception"], [kind |-> "response", status_code |-> 503] }
    \cup { [kind |-> "response", status_code |-> 200, routes |-> n] :
             n \in 0..MaxCandidates }

\* route_types of a route-logic request, split at the commas
RequestedTypeLists ==
    { DefaultRouteTypes, << "fastest" >>, << "healthiest", "shortest" >>, << "scenic" >> }

\* What the oracle answers for the waypoints of one route: the grade and
\* the PM2.5 of its predictions
RouteLogicAnswers ==
    { [grade |-> "good", pm25 |-> 1200], [grade |-> "1", pm25 |-> 1200],
      [grade |-> "2", pm25 |-> 2500] }

\* air_quality_data of a route whose oracle calls are answered so
AnsweredPredictions(waypoints, answer) ==
    [k \in 1..Len(waypoints) |->
        [RouteLogicPrediction(waypoints[k], k, answer.grade) EXCEPT !.pm25 = answer.pm25]]

\* The start and end of the requests to the handlers: (37.5, 127.0) -> (38.0, 127.5)
HandlerPair ==
    [start |-> [latitude |-> 375000, longitude |-> 1270000],
     end   |-> [latitude |-> 380000, longitude |-> 1275000]]

\* The number of routes left after the filter
NumFiltered(reply, requested_types) ==
    Len(FilteredRoutes(fetch_routes_from_kakao(HandlerPair.start, HandlerPair.end, reply),
                       requested_types))

\* GET /api/v1/routes and POST /api/v1/routes/calculate
InitCalculateRoutes ==
    /\ entry \in {"calculate_routes", "calculate_routes_post"} /\ pc = "call"
    /\ request = NoRequest /\ libmRoundsUp = FALSE /\ oracleMode = "any"
    /\ \E reply \in KakaoReplies, requested_types \in RequestedTypeLists :
         \E answers \in [1..NumFiltered(reply, requested_types) -> RouteLogicAnswers] :
            args = [start |-> HandlerPair.start, end |-> HandlerPair.end,
                    route_types |-> requested_types, reply |-> reply,
                    answers |-> [k \in DOMAIN answers |->
                                    AnsweredPredictions(
                                        ProcessRouteWaypoints(HandlerPair.start,
                                                              HandlerPair.end),
                                        answers[k])]]
    /\ Idle

\* The clamped predictions are the floats nearest to k / PM25Steps
PM25Steps == 5

\* prediction = max(0, min(500, prediction)): the upper end of the range
MaxPM25 == 500

\* calculate_aqi(prediction) for a clamped prediction k / PM25Steps
InitAqi ==
    /\ entry = "calculate_aqi" /\ pc = "call"
    /\ request = NoRequest /\ libmRoundsUp = FALSE /\ oracleMode = "any"
    /\ args \in 0..(MaxPM25 * PM25Steps)
    /\ Idle

\* The number of operations of the AI prediction service that are followed
MaxOperations == 4

\* The AI prediction service before its startup event
InitAiPrediction ==
    /\ entry = "ai_prediction" /\ pc = "startup"
    /\ request = NoRequest /\ libmRoundsUp = FALSE /\ oracleMode = "any"
    /\ args = None
    /\ Idle

Init ==
    \/ InitRecommend \/ InitFetch \/ InitSample \/ InitPredict \/ InitSegments
    \/ InitScores \/ InitSelect
    \/ InitRouteLogicScore \/ InitRouteLogicSegments \/ InitCalculateRoutes
    \/ InitAqi \/ InitAiPrediction

---------------------------------------------------------------------------
(* Methods applied directly.                                               *)

CallFetch ==
    /\ entry = "_fetch_route_candidates" /\ pc = "call"
    /\ result' = fetch_route_candidates(request, args)
    /\ pc' = "done"
    /\ UNCHANGED << callVars, clientError, route_candidates, cand, coordinates, predictions, replies, posted,
                    mapReply, processed_routes, scored_routes >>

CallSample ==
    /\ entry = "_sample_route_coordinates" /\ pc = "call"
    /\ result' = sample_route_coordinates(args.waypoints, args.num_samples)
    /\ pc' = "done"
    /\ UNCHANGED << callVars, clientError, route_candidates, cand, coordinates, predictions, replies, posted,
                    mapReply, processed_routes, scored_routes >>

CallSegments ==
    /\ entry = "_create_route_segments" /\ pc = "call"
    /\ result' = create_route_segments(args.coordinates, args.air_quality_data)
    /\ pc' = "done"
    /\ UNCHANGED << callVars, clientError, route_candidates, cand, coordinates, predictions, replies, posted,
                    mapReply, processed_routes, scored_routes >>

CallScores ==
    /\ entry = "_calculate_route_scores" /\ pc = "call"
    /\ result' = Ok(calculate_route_scores(args))
    /\ pc' = "done"
    /\ UNCHANGED << callVars, clientError, route_candidates, cand, coordinates, predictions, replies, posted,
                    mapReply, processed_routes, scored_routes >>

CallSelect ==
    /\ entry = "_determine_optimal_routes" /\ pc = "call"
    /\ result' = Ok(determine_optimal_routes(args))
    /\ pc' = "done"
    /\ UNCHANGED << callVars, clientError, route_candidates, cand, coordinates, predictions,
                    replies, posted, mapReply, processed_routes, scored_routes >>

CallRouteLogicScore ==
    /\ entry = "calculate_route_air_quality_score" /\ pc = "call"
    /\ result' = Ok(calculate_route_air_quality_score(args))
    /\ pc' = "done"
    /\ UNCHANGED << callVars, clientError, route_candidates, cand, coordinates, predictions,
                    replies, posted, mapReply, processed_routes, scored_routes >>

CallRouteLogicSegments ==
    /\ entry = "create_route_segments" /\ pc = "call"
    /\ result' = route_logic_create_route_segments(args.waypoints, args.air_quality_data)
    /\ pc' = "done"
    /\ UNCHANGED << callVars, clientError, route_candidates, cand, coordinates, predictions,
                    replies, posted, mapReply, processed_routes, scored_routes >>

\* calculate_routes: requested_types = [t.strip() for t in route_types.split(",")]
CallCalculateRoutes ==
    /\ entry = "calculate_routes" /\ pc = "call"
    /\ result' = calculate_routes(args.start, args.end, args.route_types, args.reply,
                                  args.answers)
    /\ pc' = "done"
    /\ UNCHANGED << callVars, clientError, route_candidates, cand, coordinates, predictions,
                    replies, posted, mapReply, processed_routes, scored_routes >>

\* calculate_routes_post: the types are request.route_types
CallCalculateRoutesPost ==
    /\ entry = "calculate_routes_post" /\ pc = "call"
    /\ result' = calculate_routes(args.start, args.end, args.route_types, args.reply,
                                  args.answers)
    /\ pc' = "done"
    /\ UNCHANGED << callVars, clientError, route_candidates, cand, coordinates, predictions,
                    replies, posted, mapReply, processed_routes, scored_routes >>

CallAqi ==
    /\ entry = "calculate_aqi" /\ pc = "call"
    /\ result' = Ok(calculate_aqi(F64Div(args, PM25Steps)))
    /\ pc' = "done"
    /\ UNCHANGED << callVars, clientError, route_candidates, cand, coordinates, predictions,
                    replies, posted, mapReply, processed_routes, scored_routes >>

---------------------------------------------------------------------------
(* The AI prediction service: startup, reload and predict.                 *)

\* The globals as a record
Globals == [model |-> model, scaler |-> scaler, model_loaded |-> model_loaded,
            raised |-> FALSE]

\* The globals are set from the record load_model left
Loaded(after, op) ==
    /\ model' = after.model /\ scaler' = after.scaler
    /\ model_loaded' = after.model_loaded
    /\ history' = Append(history, [op |-> op, ok |-> ~ after.raised])

\* startup_event: load_model(), an exception of which is logged
Startup ==
    /\ entry = "ai_prediction" /\ pc = "startup"
    /\ \E outcome \in LoadOutcomes : Loaded(load_model(Globals, outcome), "load")
    /\ pc' = "serving"
    /\ UNCHANGED << entry, request, libmRoundsUp, oracleMode, args, cancelled, clientError,
                    route_candidates, cand, coordinates, predictions, replies, posted,
                    mapReply, processed_routes, scored_routes, result >>

\* POST /api/v1/models/reload
Reload ==
    /\ entry = "ai_prediction" /\ pc = "serving" /\ Len(history) < MaxOperations
    /\ \E outcome \in LoadOutcomes :
         /\ Loaded(load_model(Globals, outcome), "load")
         /\ result' = IF load_model(Globals, outcome).raised THEN HTTP500
                       ELSE Ok([success |-> TRUE])
    /\ UNCHANGED << entry, pc, request, libmRoundsUp, oracleMode, args, cancelled,
                    clientError, route_candidates, cand, coordinates, predictions, replies,
                    posted, mapReply, processed_routes, scored_routes >>

\* POST /api/v1/predict, the model predicting 12.0
Predict ==
    /\ entry = "ai_prediction" /\ pc = "serving" /\ Len(history) < MaxOperations
    /\ result' = predict_air_quality_endpoint(model_loaded, model, F64FromInt(12))
    /\ history' = Append(history, [op |-> "predict", ok |-> result'.ok])
    /\ UNCHANGED << entry, pc, request, libmRoundsUp, oracleMode, args, cancelled,
                    clientError, route_candidates, cand, coordinates, predictions, replies,
                    posted, mapReply, processed_routes, scored_routes, model, scaler,
                    model_loaded >>

---------------------------------------------------------------------------
(* RouteEvaluationOrchestrator: AirQualityService.get_recommended_routes.  *)

\* The response of the outer handler without success=False: the field's
\* default is True
ErrorResponse_default_success ==
    RouteResponse(TRUE, "error", None, None, None, None, 0)

\* except Exception as e: the response of the outer handler
ErrorResponse == RouteResponse(FALSE, "error", None, None, None, None, 0)

NotFoundResponse == RouteResponse(FALSE, "no_routes_found", None, None, None, None, 0)

\* Where the for loop over route_candidates goes after candidate c
AfterCandidate(candidates, c) == IF c < Len(candidates) THEN "process" ELSE "score"

\* route_candidates = await self._fetch_route_candidates(request), up to the
\* for loop; iterating a routes value that is no list raises TypeError.
FetchCandidates ==
    /\ entry = "get_recommended_routes" /\ pc = "fetch"
    /\ \E reply \in MapReplies(request) :
         LET fetched == fetch_route_candidates(request, reply)
         IN  /\ mapReply' = reply
             /\ IF ~ fetched.ok
                THEN /\ result' = Ok(ErrorResponse) /\ pc' = "done"
                     /\ UNCHANGED << route_candidates, cand >>
                ELSE IF Falsy(fetched.val)
                THEN /\ result' = Ok(NotFoundResponse) /\ pc' = "done"
                     /\ UNCHANGED << route_candidates, cand >>
                ELSE IF "list" \notin DOMAIN fetched.val
                THEN /\ result' = Ok(ErrorResponse) /\ pc' = "done"
                     /\ UNCHANGED << route_candidates, cand >>
                ELSE /\ route_candidates' = fetched.val.list
                     /\ cand' = 1 /\ pc' = "process"
                     /\ UNCHANGED result
    /\ UNCHANGED << callVars, clientError, coordinates, predictions, replies, posted, processed_routes,
                    scored_routes >>

\* _process_route_candidate, up to the call of _get_air_quality_predictions:
\* an exception of the sampler makes the method return None.
ProcessCandidate ==
    /\ entry = "get_recommended_routes" /\ pc = "process"
    /\ LET candidate == route_candidates[cand]
           sampled   == sample_route_coordinates(Get(candidate, "waypoints", << >>),
                                                 NumSamples)
       IN  IF sampled.ok
           THEN /\ coordinates' = sampled.val
                /\ predictions' = << >> /\ replies' = << >> /\ posted' = << >>
                /\ clientError' = "none"
                /\ pc' = "aq_enter"
                /\ UNCHANGED cand
           ELSE /\ cand' = cand + 1
                /\ pc' = AfterCandidate(route_candidates, cand)
                /\ UNCHANGED << coordinates, predictions, replies, posted, clientError >>
    /\ UNCHANGED << callVars, route_candidates, mapReply, processed_routes, scored_routes,
                    result >>

\* _get_air_quality_predictions returns ret to its caller
Returns(ret) ==
    IF entry = "_get_air_quality_predictions"
    THEN /\ result' = Ok(ret) /\ pc' = "done" /\ UNCHANGED predictions
    ELSE /\ predictions' = ret /\ pc' = "process_return" /\ UNCHANGED result

\* async with httpx.AsyncClient(timeout=30.0) as client: entering it
AqEnter ==
    /\ pc = "aq_enter"
    /\ \E raises \in ClientEnterRaises(oracleMode) :
         IF raises
         THEN /\ clientError' = "enter"
              /\ Returns(AllDefaults(coordinates))
         ELSE /\ pc' = IF coordinates = << >> THEN "aq_exit" ELSE "aq_call"
              /\ UNCHANGED << predictions, result, clientError >>
    /\ UNCHANGED << callVars, route_candidates, cand, coordinates, replies, posted, mapReply,
                    processed_routes, scored_routes >>

\* One iteration of "for coord in coordinates": the call and its handling
AqCall ==
    /\ pc = "aq_call"
    /\ LET k == Len(predictions) + 1
       IN  \E reply \in RepliesOf(oracleMode, cand, k) :
               /\ predictions' = AppendPrediction(predictions, reply)
               /\ replies' = Append(replies, reply)
               /\ posted' = Append(posted, [latitude |-> coordinates[k].latitude,
                                             longitude |-> coordinates[k].longitude])
               /\ pc' = IF k < Len(coordinates) THEN "aq_call" ELSE "aq_exit"
    /\ UNCHANGED << callVars, clientError, route_candidates, cand, coordinates, mapReply,
                    processed_routes, scored_routes, result >>

\* The handlers turning a failure into a default sample, an all-defaults list,
\* None and the error response, treating every raised object alike
ExceptException_catches_all(exc) == TRUE

\* except Exception: whether the clause handles an exception of class exc.
\* asyncio.CancelledError derives from BaseException, not from Exception.
ExceptException(exc) == exc \notin {"CancelledError", "KeyboardInterrupt", "SystemExit"}

\* The task is cancelled while "await client.post(...)" is pending:
\* CancelledError is raised at the await, inside the inner try.  A handler
\* that takes it appends the default sample and the loop goes on; otherwise
\* it leaves the async with and every enclosing try of the call.
Cancel ==
    /\ entry = "get_recommended_routes" /\ pc = "aq_call" /\ ~ cancelled
    /\ cancelled' = TRUE
    /\ IF ExceptException("CancelledError")
       THEN /\ predictions' = Append(predictions, create_default_air_quality)
            /\ replies' = Append(replies, [kind |-> "exception"])
            /\ posted' = Append(posted,
                                [latitude |-> coordinates[Len(predictions) + 1].latitude,
                                 longitude |-> coordinates[Len(predictions) + 1].longitude])
            /\ pc' = IF Len(predictions) + 1 < Len(coordinates) THEN "aq_call" ELSE "aq_exit"
            /\ UNCHANGED result
       ELSE /\ result' = Raise("CancelledError")
            /\ pc' = "cancelled"
            /\ UNCHANGED << predictions, replies, posted >>
    /\ UNCHANGED << entry, request, libmRoundsUp, oracleMode, args, clientError,
                    route_candidates, cand, coordinates, mapReply, processed_routes,
                    scored_routes, model, scaler, model_loaded, history >>

\* return predictions, leaving the async with; an exception on the way out
\* is caught by the outer except
AqExit ==
    /\ pc = "aq_exit"
    /\ \E raises \in ClientExitRaises(oracleMode) :
         /\ clientError' = IF raises THEN "exit" ELSE clientError
         /\ Returns(IF raises THEN AllDefaults(coordinates) ELSE predictions)
    /\ UNCHANGED << callVars, route_candidates, cand, coordinates, replies, posted, mapReply,
                    processed_routes, scored_routes >>

\* candidate["sampled_coordinates"] = ...; candidate["air_quality_data"] = ...
Update(candidate, sampled, air_quality_data) ==
    [k \in DOMAIN candidate \cup {"sampled_coordinates", "air_quality_data"} |->
        CASE k = "sampled_coordinates" -> sampled
          [] k = "air_quality_data"    -> air_quality_data
          [] OTHER                     -> candidate[k]]

\* _process_route_candidate after the predictions: the candidate, one object
\* in route_candidates and in processed_routes, is updated and appended
FinishCandidate ==
    /\ entry = "get_recommended_routes" /\ pc = "process_return"
    /\ LET updated == Update(route_candidates[cand], coordinates, predictions)
       IN  /\ route_candidates' = [route_candidates EXCEPT ![cand] = updated]
           /\ processed_routes' = Append(processed_routes, updated)
    /\ cand' = cand + 1
    /\ pc' = AfterCandidate(route_candidates, cand)
    /\ UNCHANGED << callVars, clientError, coordinates, predictions, replies, posted, mapReply, scored_routes,
                    result >>

\* scored_routes = await self._calculate_route_scores(processed_routes)
ScoreRoutes ==
    /\ entry = "get_recommended_routes" /\ pc = "score"
    /\ scored_routes' = calculate_route_scores(processed_routes)
    /\ pc' = "select"
    /\ UNCHANGED << callVars, clientError, route_candidates, cand, coordinates, predictions, replies, posted,
                    mapReply, processed_routes, result >>

\* response = self._determine_optimal_routes(scored_routes); return response
SelectRoutes ==
    /\ entry = "get_recommended_routes" /\ pc = "select"
    /\ result' = Ok(determine_optimal_routes(scored_routes))
    /\ pc' = "done"
    /\ UNCHANGED << callVars, clientError, route_candidates, cand, coordinates, predictions, replies, posted,
                    mapReply, processed_routes, scored_routes >>

Next ==
    \/ CallFetch \/ CallSample \/ CallSegments \/ CallScores \/ CallSelect
    \/ CallRouteLogicScore \/ CallRouteLogicSegments
    \/ CallCalculateRoutes \/ CallCalculateRoutesPost \/ CallAqi
    \/ FetchCandidates \/ ProcessCandidate
    \/ AqEnter \/ AqCall \/ Cancel \/ AqExit
    \/ FinishCandidate \/ ScoreRoutes \/ SelectRoutes
    \/ Startup \/ Reload \/ Predict

Spec == Init /\ [][Next]_vars

---------------------------------------------------------------------------
(* Properties of the CoordinateSampler.                                    *)

\* A waypoint of the map API with both keys, inside the ranges of Coordinate
WellFormed(wp) ==
    /\ {"latitude", "longitude"} \subseteq DOMAIN wp
    /\ Coordinate(wp["latitude"], wp["longitude"]).ok

SamplerReturned == entry = "_sample_route_coordinates" /\ pc = "done"

\* C6: for a waypoint list of length >= 2 (first and last waypoint being
\* valid coordinates) and sample count N, the sampler returns exactly N + 1
\* coordinates, the first equal to the first waypoint and the last equal
\* to the last waypoint.
C6_SamplerEndpoints ==
    ( /\ SamplerReturned
      /\ Len(args.waypoints) >= 2
      /\ WellFormed(args.waypoints[1])
      /\ WellFormed(args.waypoints[Len(args.waypoints)]) )
    => /\ result.ok
       /\ Len(result.val) = args.num_samples + 1
       /\ result.val[1] = args.waypoints[1]
       /\ result.val[Len(result.val)] = args.waypoints[Len(args.waypoints)]

\* C7 as stated: with fewer than 2 waypoints the sampler fails with
\* InvalidInputError.
C7_SamplerRaisesInvalidInput ==
    (SamplerReturned /\ Len(args.waypoints) < 2)
    => (~ result.ok /\ result.exc = "InvalidInputError")

\* C7 amended: with fewer than 2 waypoints the sampler raises nothing and
\* returns the empty list of coordinates.
C7_SamplerReturnsEmpty ==
    (SamplerReturned /\ Len(args.waypoints) < 2) => result = Ok(<< >>)

\* The sampler has returned for a single waypoint
C7_Witness ==
    SamplerReturned /\ Len(args.waypoints) = 1 /\ result = Ok(<< >>)

---------------------------------------------------------------------------
(* Properties of the AirQualityOracle client.                              *)

\* pm25=25.0, pm10=40.0, o3=0.05, no2=0.02, aqi=50, 'moderate', confidence=0.5
DefaultSample ==
    [pm25 |-> 2500, pm10 |-> 4000, o3 |-> 5, no2 |-> 2, air_quality_index |-> 50,
     grade |-> "moderate", confidence |-> 50]

\* The first prediction of a reply that carries one
FirstPrediction(reply) == reply.json["predictions"][1]

\* A prediction with a value outside the ranges of AirQualityData
Rejected(pred) ==
    \/ \E f \in {"predicted_pm25", "predicted_pm10", "predicted_o3", "predicted_no2"} :
          f \in DOMAIN pred /\ pred[f] < 0
    \/ "air_quality_index" \in DOMAIN pred /\ pred["air_quality_index"] \notin 0..500
    \/ "confidence" \in DOMAIN pred /\ pred["confidence"] \notin 0..100

\* The call for one coordinate failed: an exception, a status other than
\* 200, a body that is no JSON, success missing or false, no predictions,
\* or a prediction AirQualityData rejects
CallFailed(reply) ==
    \/ reply.kind = "exception"
    \/ reply.status_code # 200
    \/ ~ reply.parses
    \/ "success" \notin DOMAIN reply.json
    \/ ~ reply.json["success"]
    \/ "predictions" \notin DOMAIN reply.json
    \/ Len(reply.json["predictions"]) = 0
    \/ Rejected(FirstPrediction(reply))

\* The sample carries the values of the reply's first prediction
Carries(sample, pred) ==
    /\ "predicted_pm25" \in DOMAIN pred => sample.pm25 = pred["predicted_pm25"]
    /\ "predicted_pm10" \in DOMAIN pred => sample.pm10 = pred["predicted_pm10"]
    /\ "predicted_o3" \in DOMAIN pred => sample.o3 = pred["predicted_o3"]
    /\ "predicted_no2" \in DOMAIN pred => sample.no2 = pred["predicted_no2"]
    /\ "air_quality_index" \in DOMAIN pred
         => sample.air_quality_index = pred["air_quality_index"]
    /\ "grade" \in DOMAIN pred => sample.grade = pred["grade"]
    /\ "confidence" \in DOMAIN pred => sample.confidence = pred["confidence"]

PredictionsReturned == entry = "_get_air_quality_predictions" /\ pc = "done"

\* C1: in _get_air_quality_predictions a failed call for a coordinate gives
\* exactly the default sample at that coordinate's position, in the list
\* being collected and in the list returned; the method raises nothing and
\* returns one sample per coordinate; and the samples of the coordinates
\* whose calls did not fail carry the values of their own replies.
C1_FailedCallYieldsDefault ==
    /\ \A k \in 1..Len(replies) :
          CallFailed(replies[k]) => predictions[k] = DefaultSample
    /\ clientError = "none"
         => /\ Len(predictions) = Len(replies)
            /\ \A k \in 1..Len(replies) :
                  ~ CallFailed(replies[k])
                      => Carries(predictions[k], FirstPrediction(replies[k]))
    /\ PredictionsReturned
         => /\ result.ok
            /\ Len(result.val) = Len(coordinates)
            /\ \A k \in 1..Len(replies) :
                  CallFailed(replies[k]) => result.val[k] = DefaultSample
            /\ clientError = "none" => result.val = predictions

\* Two coordinates were asked for; the first call failed by a payload
\* AirQualityData rejects and the second gave the index 120
C1_Witness ==
    /\ PredictionsReturned /\ clientError = "none"
    /\ Len(replies) = 2
    /\ replies[1] = Estimate(600)
    /\ replies[2] = Estimate(120)
    /\ result.val[1] = DefaultSample
    /\ result.val[2].air_quality_index = 120

---------------------------------------------------------------------------
(* Properties of the RouteScorer.                                          *)

ScoresReturned == entry = "_calculate_route_scores" /\ pc = "done"

Clamp(n, lo, hi) == IF n < lo THEN lo ELSE IF n > hi THEN hi ELSE n

\* The rational q lies in [lo, hi]
Within(q, lo, hi) == q.den > 0 /\ lo * q.den <= q.num /\ q.num <= hi * q.den

\* C8: for a route with a non-empty sample set of n indices summing to S the
\* score is clamp(100 - (S/n - 50) * 2, 0, 100), that is
\* clamp(200n - 2S, 0, 100n) / n; it lies in [0, 100]; it is 100 when every
\* index is 0 and 0 when every index is 500.  Every score the orchestrator
\* holds lies in [0, 100] too.
C8_ScoreClampedLinear ==
    /\ (ScoresReturned /\ args[1].air_quality_data # << >>)
         => LET data  == args[1].air_quality_data
                n     == Len(data)
                S     == SumOf(data, "air_quality_index")
            IN  /\ Len(result.val) = 1
                /\ LET score == result.val[1].air_quality_score
                   IN  /\ score.num * n = Clamp(200 * n - 2 * S, 0, 100 * n) * score.den
                       /\ Within(score, 0, 100)
                       /\ result.val[1].route_info.air_quality_score = score
                       /\ (\A k \in 1..n : data[k].air_quality_index = 0)
                            => score = [num |-> 100, den |-> 1]
                       /\ (\A k \in 1..n : data[k].air_quality_index = 500)
                            => score = [num |-> 0, den |-> 1]
    /\ \A k \in 1..Len(scored_routes) : Within(scored_routes[k].air_quality_score, 0, 100)

\* A route whose samples all have the index 0 got the score 100
C8_Witness ==
    /\ ScoresReturned
    /\ Len(args[1].air_quality_data) = 2
    /\ \A k \in 1..2 : args[1].air_quality_data[k].air_quality_index = 0
    /\ result.val[1].air_quality_score = [num |-> 100, den |-> 1]

---------------------------------------------------------------------------
(* Properties of the SegmentBuilder.                                       *)

SegmentsReturned == entry = "_create_route_segments" /\ pc = "done"

\* C10: for a coordinate sequence of length N >= 2 (with one sample per
\* coordinate) _create_route_segments returns N - 1 segments, segment i
\* running from coordinate i to coordinate i + 1 with the duration 5 and a
\* distance >= 0; and every scored route has len(waypoints) - 1 segments.
C10_SegmentsJoinNeighbours ==
    /\ ( /\ SegmentsReturned
         /\ Len(args.coordinates) >= 2
         /\ Len(args.air_quality_data) = Len(args.coordinates) )
         => /\ result.ok
            /\ Len(result.val) = Len(args.coordinates) - 1
            /\ \A i \in 1..(Len(args.coordinates) - 1) :
                  /\ result.val[i].start = args.coordinates[i]
                  /\ result.val[i].end = args.coordinates[i + 1]
                  /\ result.val[i].duration = 5
                  /\ NonNegative(result.val[i].distance)
    /\ \A k \in 1..Len(scored_routes) :
          Len(scored_routes[k].route_info.segments)
              = Len(scored_routes[k].route_info.waypoints) - 1

---------------------------------------------------------------------------
(* Properties of the CandidateRouteFetcher.                                *)

FetchReturned == entry = "_fetch_route_candidates" /\ pc = "done"

\* The map API raised or answered with a status other than 200
Unavailable(reply) == reply.kind = "exception" \/ reply.status_code # 200

\* The great circle from the request's start to its end, times t10 / 10
Direct(req, t10) ==
    [kind |-> "haversine", from |-> << req.start_lat, req.start_lon >>,
     to |-> << req.end_lat, req.end_lon >>, times10 |-> t10]

\* route_001/fastest/x1.1/25, route_002/shortest/x1.0/35,
\* route_003/healthiest/x1.3/45, each with the waypoints [start, end]
IsFallbackSet(routes, req) ==
    /\ Len(routes) = 3
    /\ \A k \in 1..3 :
          /\ routes[k].waypoints
                = << [latitude |-> req.start_lat, longitude |-> req.start_lon],
                     [latitude |-> req.end_lat, longitude |-> req.end_lon] >>
    /\ routes[1].route_id = "route_001" /\ routes[1].type = "fastest"
    /\ routes[1].distance = Direct(req, 11) /\ routes[1].duration = 25
    /\ routes[2].route_id = "route_002" /\ routes[2].type = "shortest"
    /\ routes[2].distance = Direct(req, 10) /\ routes[2].duration = 35
    /\ routes[3].route_id = "route_003" /\ routes[3].type = "healthiest"
    /\ routes[3].distance = Direct(req, 13) /\ routes[3].duration = 45

\* C4: when the map API raises or answers with a status other than 200,
\* _fetch_route_candidates returns the fixed fallback set of three
\* candidates.
C4_UnavailableFetcherGivesFallback ==
    (FetchReturned /\ Unavailable(args))
    => /\ result.ok
       /\ "list" \in DOMAIN result.val
       /\ IsFallbackSet(result.val.list, request)

---------------------------------------------------------------------------
(* Properties of the RouteEvaluationOrchestrator.                          *)

RecommendReturned == entry = "get_recommended_routes" /\ pc = "done"

\* The map API answered 200 with a JSON object holding no candidates
EmptyReply(reply) ==
    /\ reply.kind = "response" /\ reply.status_code = 200
    /\ reply.parses /\ reply.is_object
    /\ ("routes" \in DOMAIN reply.json => reply.json["routes"] = [list |-> << >>])

\* The fallback generator itself raises for this request
FallbackRaises == IsAntipodal(request) /\ libmRoundsUp

\* C5: when the map API answers 200 with zero candidates (and the fallback
\* generator does not fail), get_recommended_routes goes on with the
\* fallback set: the three fallback candidates are evaluated and fill the
\* slots of the response.
C5_EmptyFetchUsesFallback ==
    (RecommendReturned /\ EmptyReply(mapReply) /\ ~ FallbackRaises)
    => /\ result.ok
       /\ result.val.success
       /\ result.val.total_routes = 3
       /\ result.val.fastest_route # None
       /\ result.val.fastest_route.route_id = "route_001"

\* The fetcher used the fallback generator: no reply, a status other than
\* 200, or a body that is no JSON object
FetcherFellBack(reply) ==
    \/ reply.kind = "exception"
    \/ reply.status_code # 200
    \/ ~ reply.parses
    \/ ~ reply.is_object

\* The routes value of the reply is a number other than 0: iterating it
\* raises TypeError
RoutesNotIterable(reply) ==
    /\ ~ FetcherFellBack(reply)
    /\ "routes" \in DOMAIN reply.json
    /\ "number" \in DOMAIN reply.json["routes"]
    /\ reply.json["routes"].number # 0

\* An exception reached the handler of get_recommended_routes
ExceptionReached ==
    \/ FetcherFellBack(mapReply) /\ FallbackRaises
    \/ RoutesNotIterable(mapReply)

\* C3: get_recommended_routes never raises, unless its task is cancelled:
\* what it returns is a RouteResponse, and when an exception reached its
\* handler the response has success = false and total_routes = 0.
C3_NoExceptionEscapes ==
    entry = "get_recommended_routes"
    => /\ result = None \/ result.ok \/ cancelled
       /\ pc = "done" /\ ~ cancelled
            => /\ result.ok
               /\ result.val.success \in BOOLEAN
               /\ result.val.total_routes \in Nat
               /\ ExceptionReached
                    => (~ result.val.success /\ result.val.total_routes = 0)

\* The fallback generator raised ValueError inside get_recommended_routes
\* and the response reports the failure
C3_Witness ==
    /\ RecommendReturned
    /\ FetcherFellBack(mapReply) /\ FallbackRaises
    /\ result.ok /\ ~ result.val.success /\ result.val.total_routes = 0

\* The candidates the fetcher returned, before _process_route_candidate
\* wrote into them
FetchedCandidates == fetch_route_candidates(request, mapReply).val.list

\* The candidates were fetched and the loop over them ran
Evaluated ==
    /\ RecommendReturned
    /\ ~ ExceptionReached
    /\ fetch_route_candidates(request, mapReply).ok
    /\ FetchedCandidates # << >>

\* The samples the oracle's behaviour gives the candidate at position c
\* for its coordinates
SamplesFor(c, coords) ==
    IF \A raises \in ClientEnterRaises(oracleMode) : raises
    THEN [k \in 1..Len(coords) |-> DefaultSample]
    ELSE [k \in 1..Len(coords) |->
            LET reply == CHOOSE r \in RepliesOf(oracleMode, c, k) : TRUE
            IN  IF CallFailed(reply) THEN DefaultSample ELSE ReplyEstimate(reply).val]

\* The candidate at position c with its coordinates and samples, when
\* sampling it raises nothing
Sampled(candidates, c) ==
    LET coords == sample_route_coordinates(Get(candidates[c], "waypoints", << >>), NumSamples)
    IN  [k \in DOMAIN candidates[c] \cup {"sampled_coordinates", "air_quality_data"} |->
            CASE k = "sampled_coordinates" -> coords.val
              [] k = "air_quality_data"    -> SamplesFor(c, coords.val)
              [] OTHER                     -> candidates[c][k]]

\* Sampling or scoring the candidate at position c fails
Fails(candidates, c) ==
    \/ ~ sample_route_coordinates(Get(candidates[c], "waypoints", << >>), NumSamples).ok
    \/ Sampled(candidates, c).air_quality_data = << >>
    \/ ~ ScoreRoute(Sampled(candidates, c)).ok

\* The scored routes of the candidates 1..n that do not fail, in order
RECURSIVE ScoredSurvivors(_, _)
ScoredSurvivors(candidates, n) ==
    IF n = 0 THEN << >>
    ELSE IF Fails(candidates, n) THEN ScoredSurvivors(candidates, n - 1)
    ELSE Append(ScoredSurvivors(candidates, n - 1), ScoreRoute(Sampled(candidates, n)).val)

\* C2: a candidate whose sampling or scoring fails is left out and the rest
\* are evaluated: the response equals the selection over the scored routes
\* of the non-failing candidates alone, in their order.
C2_FailingCandidatesLeftOut ==
    Evaluated
    => result = Ok(determine_optimal_routes(
                       ScoredSurvivors(FetchedCandidates, Len(FetchedCandidates))))

\* Two candidates were fetched; sampling the first raised, the second was
\* evaluated and fills the response
C2_Witness ==
    /\ Evaluated
    /\ Len(FetchedCandidates) = 2
    /\ ~ sample_route_coordinates(Get(FetchedCandidates[1], "waypoints", << >>),
                                  NumSamples).ok
    /\ ~ Fails(FetchedCandidates, 2)
    /\ result.val.success /\ result.val.total_routes = 1
    /\ result.val.optimal_route.route_id = FetchedCandidates[2].route_id

\* The route ids of the processed candidates that got zero samples
ZeroSampleIds ==
    { processed_routes[k].route_id :
        k \in { j \in 1..Len(processed_routes) :
                  processed_routes[j].air_quality_data = << >> } }

\* The route ids in the four slots of a response
SlotIds(response) ==
    { response[slot].route_id :
        slot \in { f \in {"fastest_route", "shortest_route", "healthiest_route",
                          "optimal_route"} : response[f] # None } }

\* C9: a candidate with zero samples (candidates being told apart by their
\* route_id) is never scored, is in no slot of the response and is not
\* counted in total_routes; scoring a list of one such route gives nothing.
C9_ZeroSamplesNeverScored ==
    /\ entry = "get_recommended_routes"
         => /\ \A k \in 1..Len(scored_routes) :
                  scored_routes[k].route_info.route_id \notin ZeroSampleIds
            /\ (pc = "done" /\ processed_routes # << >>)
                 => /\ SlotIds(result.val) \cap ZeroSampleIds = {}
                    /\ result.val.total_routes
                         <= Cardinality({ j \in 1..Len(processed_routes) :
                                            processed_routes[j].air_quality_data # << >> })
    /\ (ScoresReturned /\ args[1].air_quality_data = << >>) => result = Ok(<< >>)

\* A candidate with zero samples and one with samples were processed; the
\* response counts one route
C9_Witness ==
    /\ RecommendReturned
    /\ Len(processed_routes) = 2
    /\ processed_routes[1].air_quality_data = << >>
    /\ processed_routes[2].air_quality_data # << >>
    /\ result.val.success /\ result.val.total_routes = 1
    /\ SlotIds(result.val) = {processed_routes[2].route_id}

---------------------------------------------------------------------------
(* Properties of the segments of scored routes.                            *)

\* The segments carry, in order, the samples but the last
CarriesStartSamples(segments, samples) ==
    /\ Len(segments) = Len(samples) - 1
    /\ \A i \in 1..Len(segments) : segments[i].air_quality = samples[i]

\* C11: in every scored route the air quality of segment i is the sample of
\* the segment's starting coordinate, samples[i], and the last sample is on
\* no segment: for the route scored by _calculate_route_scores directly, and
\* for every scored route of get_recommended_routes against the processed
\* candidate it was scored from.
C11_SegmentCarriesStartSample ==
    /\ (ScoresReturned /\ args[1].air_quality_data # << >>)
         => /\ Len(result.val) = 1
            /\ CarriesStartSamples(result.val[1].route_info.segments,
                                   args[1].air_quality_data)
    /\ \A k \in 1..Len(scored_routes) :
          \E j \in 1..Len(processed_routes) :
              /\ processed_routes[j].route_id = scored_routes[k].route_info.route_id
              /\ processed_routes[j].sampled_coordinates
                    = scored_routes[k].route_info.waypoints
              /\ CarriesStartSamples(scored_routes[k].route_info.segments,
                                     processed_routes[j].air_quality_data)

\* A route with three samples of the indices 0, 60, 500 was scored: its two
\* segments carry the first and the second
C11_Witness ==
    /\ ScoresReturned
    /\ Len(args[1].air_quality_data) = 3
    /\ args[1].air_quality_data[1].air_quality_index = 0
    /\ args[1].air_quality_data[2].air_quality_index = 60
    /\ args[1].air_quality_data[3].air_quality_index = 500
    /\ Len(result.val[1].route_info.segments) = 2
    /\ result.val[1].route_info.segments[1].air_quality.air_quality_index = 0
    /\ result.val[1].route_info.segments[2].air_quality.air_quality_index = 60

---------------------------------------------------------------------------
(* Properties of the RouteSelector.                                        *)

SelectReturned == entry = "_determine_optimal_routes" /\ pc = "done"

\* The positions of the routes of a category
OfType(scored, type) == { k \in 1..Len(scored) : scored[k].route_info.type = type }

\* The greatest element of a non-empty set of numbers
Last(S) == CHOOSE k \in S : \A j \in S : j <= k

\* The slot of a category holds the last route of the category, or nothing
LastOfTypeWins(response, scored) ==
    \A slot \in { << "fastest_route", "fastest" >>, << "shortest_route", "shortest" >>,
                  << "healthiest_route", "healthiest" >> } :
        IF OfType(scored, slot[2]) = {}
        THEN response[slot[1]] = None
        ELSE response[slot[1]] = scored[Last(OfType(scored, slot[2]))].route_info

\* C12: each of the slots fastest_route, shortest_route and healthiest_route
\* of the response of _determine_optimal_routes holds the last route in
\* input order whose type is that category, and nothing when no scored
\* route has the type.
C12_LastOfCategoryWins ==
    /\ (SelectReturned /\ args # << >>) => LastOfTypeWins(result.val, args)
    /\ (Evaluated /\ scored_routes # << >>) => LastOfTypeWins(result.val, scored_routes)

\* The routes a, c, b were given: c, the second of the category fastest,
\* fills the slot, and the slot healthiest_route is empty
C12_Witness ==
    /\ SelectReturned
    /\ Len(args) = 3
    /\ args[1].route_info.route_id = "a" /\ args[2].route_info.route_id = "c"
    /\ args[3].route_info.route_id = "b"
    /\ result.val.fastest_route.route_id = "c"
    /\ result.val.shortest_route.route_id = "b"
    /\ result.val.healthiest_route = None

\* success = false, total_routes = 0 and no route in any slot
IsEmptyResponse(response) ==
    /\ response.success = FALSE
    /\ response.total_routes = 0
    /\ response.fastest_route = None /\ response.shortest_route = None
    /\ response.healthiest_route = None /\ response.optimal_route = None

\* C14: _determine_optimal_routes on an empty list returns, without
\* raising, a response with success = false, total_routes = 0 and the four
\* slots absent; so does get_recommended_routes when no candidate was scored.
C14_EmptySelection ==
    /\ (SelectReturned /\ args = << >>) => (result.ok /\ IsEmptyResponse(result.val))
    /\ (Evaluated /\ scored_routes = << >>) => (result.ok /\ IsEmptyResponse(result.val))

\* The selector has returned for the empty list
C14_Witness ==
    SelectReturned /\ args = << >> /\ result.ok /\ ~ result.val.success

\* air_quality_score * 0.7 + max(0, 100 - duration * 2) * 0.3 as a number
ExactCombinedScore(route) ==
    RAdd(RScale(route.air_quality_score, 7, 10),
         RScale(Rat(IF route.duration < 50 THEN 100 - route.duration * 2 ELSE 0, 1), 3, 10))

\* The first position in input order whose combined score no other exceeds
FirstBest(scored) ==
    CHOOSE k \in 1..Len(scored) :
        /\ \A j \in 1..Len(scored) :
              RLeq(ExactCombinedScore(scored[j]), ExactCombinedScore(scored[k]))
        /\ \A j \in 1..(k - 1) :
              RLess(ExactCombinedScore(scored[j]), ExactCombinedScore(scored[k]))

\* C13: for a non-empty list of scored routes the optimal route is the
\* input route with the highest combinedScore = airQualityScore * 0.7 +
\* max(0, 100 - duration * 2) * 0.3, and among the routes tied for the
\* highest it is the first in input order.
C13_OptimalIsFirstBest ==
    /\ (SelectReturned /\ args # << >>)
         => result.val.optimal_route = args[FirstBest(args)].route_info
    /\ (Evaluated /\ scored_routes # << >>)
         => result.val.optimal_route = scored_routes[FirstBest(scored_routes)].route_info

---------------------------------------------------------------------------
(* End-to-end properties of get_recommended_routes.                        *)

\* The oracle is unavailable for every coordinate: each call raises, or
\* the client cannot be set up at all
OracleUnavailable == oracleMode \in {"down", "no_client"}

\* The fallback routes with score 100 each: combined scores 85, 79 and 73
\* for the durations 25, 35 and 45
FallbackScores(scored) ==
    /\ Len(scored) = 3
    /\ \A k \in 1..3 :
          /\ scored[k].air_quality_score = Rat(100, 1)
          /\ scored[k].route_info.air_quality_score = Rat(100, 1)
          /\ scored[k].route_info.type = << "fastest", "shortest", "healthiest" >>[k]
          /\ scored[k].duration = << 25, 35, 45 >>[k]
          /\ F64Cmp(CombinedScore(scored[k]), F64FromInt(<< 85, 79, 73 >>[k])) = 0

\* C15: when the route fetcher is unavailable and the oracle is unavailable
\* for every coordinate, get_recommended_routes answers success = true with
\* total_routes = 3, every air quality score is 100, the combined scores
\* are 85 (fastest, 25 min), 79 (shortest, 35 min) and 73 (healthiest,
\* 45 min), and the optimal route is route_001.
C15_AllDownEndToEnd ==
    (RecommendReturned /\ Unavailable(mapReply) /\ OracleUnavailable)
    => /\ result.ok
       /\ result.val.success
       /\ result.val.total_routes = 3
       /\ FallbackScores(scored_routes)
       /\ result.val.fastest_route = scored_routes[1].route_info
       /\ result.val.shortest_route = scored_routes[2].route_info
       /\ result.val.healthiest_route = scored_routes[3].route_info
       /\ result.val.optimal_route = scored_routes[1].route_info
       /\ result.val.optimal_route.route_id = "route_001"

\* The positions of the fetched candidates that were sampled and scored
\* without a failure
Survivors == { c \in 1..Len(FetchedCandidates) : ~ Fails(FetchedCandidates, c) }

\* C16: in every successful response total_routes is the number of
\* candidates that were sampled and scored without a failure, each counted
\* once, also when several of them share a category.
C16_TotalCountsSurvivors ==
    (RecommendReturned /\ result.val.success)
    => /\ Evaluated
       /\ result.val.total_routes = Cardinality(Survivors)
       /\ result.val.total_routes = Len(scored_routes)

\* Two candidates of the category fastest survive: total_routes is 2 with
\* a single category slot filled
C16_Witness ==
    /\ RecommendReturned /\ result.val.success
    /\ Survivors = {1, 2}
    /\ FetchedCandidates[1].type = "fastest" /\ FetchedCandidates[2].type = "fastest"
    /\ result.val.total_routes = 2
    /\ result.val.shortest_route = None /\ result.val.healthiest_route = None

---------------------------------------------------------------------------
(* Properties of the samples the AirQualityOracle client hands out.        *)

\* C17: a sample that was defaulted is distinguishable from a sample the
\* oracle estimated, so that the defaulted samples can be counted: no
\* sample built from a call that did not fail equals the sample put in for
\* a failed call.
C17_DefaultedDistinguishable ==
    clientError = "none"
    => \A j, k \in 1..Len(replies) :
          (CallFailed(replies[j]) /\ ~ CallFailed(replies[k]))
              => predictions[j] # predictions[k]

\* The fields of a prediction that the oracle's reply must supply
PredictionFields ==
    {"predicted_pm25", "predicted_pm10", "predicted_o3", "predicted_no2",
     "air_quality_index", "grade", "confidence"}

\* The reply is a success whose first prediction supplies every field
Complete(reply) ==
    /\ reply.kind = "response" /\ reply.status_code = 200 /\ reply.parses
    /\ Get(reply.json, "success", FALSE)
    /\ Get(reply.json, "predictions", << >>) # << >>
    /\ PredictionFields \subseteq DOMAIN FirstPrediction(reply)

\* C18: every reply of the oracle other than a success whose first
\* prediction supplies all of pm2.5, pm10, o3, no2, index, grade and
\* confidence gives the default sample; a 200 whose first prediction lacks
\* fields gives the whole default sample, with confidence 0.5.
C18_IncompleteReplyYieldsDefault ==
    clientError = "none"
    => \A k \in 1..Len(replies) :
          ~ Complete(replies[k]) => predictions[k] = DefaultSample

---------------------------------------------------------------------------
(* The shape of the air quality score.                                     *)

\* The mean index of the samples of the route that was scored
MeanIndex == Mean(args[1].air_quality_data, "air_quality_index")

\* The score of the route that was scored
ScoreGiven == result.val[1].air_quality_score

ScoredOne == ScoresReturned /\ args[1].air_quality_data # << >> /\ Len(result.val) = 1

\* C19 as stated: the score is 100 at mean index 50, falls linearly to 0 at
\* mean index 75 and is 0 for every mean index above 75.
C19_ScoreZeroFrom75 ==
    ScoredOne
    => /\ MeanIndex = Rat(50, 1) => ScoreGiven = Rat(100, 1)
       /\ RLeq(Rat(75, 1), MeanIndex) => ScoreGiven = Rat(0, 1)

\* C19: the score is 100 up to the mean index 50, falls by 2 for each point
\* of the mean index above 50, is 50 at the mean index 75, reaches 0 at the
\* mean index 100 and is 0 for every mean index above 100.
C19_ScoreZeroFrom100 ==
    ScoredOne
    => /\ RLeq(MeanIndex, Rat(50, 1)) => ScoreGiven = Rat(100, 1)
       /\ (RLeq(Rat(50, 1), MeanIndex) /\ RLeq(MeanIndex, Rat(100, 1)))
            => ScoreGiven = RSub(Rat(200, 1), RScale(MeanIndex, 2, 1))
       /\ MeanIndex = Rat(75, 1) => ScoreGiven = Rat(50, 1)
       /\ RLeq(Rat(100, 1), MeanIndex) => ScoreGiven = Rat(0, 1)
       /\ RLess(MeanIndex, Rat(100, 1)) => ScoreGiven # Rat(0, 1)

\* A route whose samples have the mean index 75 got the score 50
C19_Witness ==
    /\ ScoredOne
    /\ Len(args[1].air_quality_data) = 2
    /\ args[1].air_quality_data[1].air_quality_index = 50
    /\ args[1].air_quality_data[2].air_quality_index = 100
    /\ MeanIndex = Rat(75, 1)
    /\ ScoreGiven = Rat(50, 1)

---------------------------------------------------------------------------
(* The order of the samples of _get_air_quality_predictions.               *)

\* The sample that belongs to a reply: the default sample for a failed
\* call, the values of the first prediction otherwise
SampleOf(reply) ==
    IF CallFailed(reply) THEN DefaultSample
    ELSE LET pred == FirstPrediction(reply)
         IN  [pm25 |-> Get(pred, "predicted_pm25", 2500),
              pm10 |-> Get(pred, "predicted_pm10", 4000),
              o3 |-> Get(pred, "predicted_o3", 5),
              no2 |-> Get(pred, "predicted_no2", 2),
              air_quality_index |-> Get(pred, "air_quality_index", 50),
              grade |-> Get(pred, "grade", "moderate"),
              confidence |-> Get(pred, "confidence", 80)]

\* Call k was made for the coordinate at position k
PostedInOrder ==
    /\ Len(posted) <= Len(coordinates)
    /\ \A k \in 1..Len(posted) :
          /\ posted[k].latitude = coordinates[k].latitude
          /\ posted[k].longitude = coordinates[k].longitude

\* C20: _get_air_quality_predictions returns exactly one sample per
\* coordinate, and the sample at position k is the one estimated or
\* defaulted for the coordinate at position k, whatever calls succeed or
\* fail: call k is made for coordinate k, its sample is put at position k,
\* and nothing is reordered, dropped or duplicated.
C20_SamplesInCoordinateOrder ==
    /\ PostedInOrder
    /\ Len(replies) = Len(posted)
    /\ clientError = "none"
         => /\ Len(predictions) = Len(posted)
            /\ \A k \in 1..Len(posted) : predictions[k] = SampleOf(replies[k])
    /\ PredictionsReturned
         => /\ result.ok
            /\ Len(result.val) = Len(coordinates)
            /\ clientError = "none"
                 => /\ Len(posted) = Len(coordinates)
                    /\ \A k \in 1..Len(coordinates) : result.val[k] = SampleOf(replies[k])
            /\ clientError # "none"
                 => \A k \in 1..Len(coordinates) : result.val[k] = DefaultSample
    /\ (entry = "get_recommended_routes" /\ pc = "process_return")
         => Len(predictions) = Len(coordinates)

\* Two different coordinates were asked for; the first call gave the index
\* 500 and the second failed: the estimate is first, the default second
C20_Witness ==
    /\ PredictionsReturned /\ clientError = "none"
    /\ Len(coordinates) = 2
    /\ posted[1] # posted[2]
    /\ replies[1] = Estimate(500)
    /\ replies[2] = [kind |-> "exception"]
    /\ result.val[1].air_quality_index = 500
    /\ result.val[2] = DefaultSample

---------------------------------------------------------------------------
(* The order in which get_recommended_routes evaluates the candidates.     *)

\* The evaluation of the candidate at position c has started
Started(c) == entry = "get_recommended_routes" /\ c <= cand

\* The evaluation of the candidate at position c has finished
Finished(c) == entry = "get_recommended_routes" /\ c < cand

\* An oracle call of the candidate at position c is awaited
InFlight(c) ==
    entry = "get_recommended_routes" /\ cand = c /\ pc = "aq_call"

\* C21: get_recommended_routes evaluates the candidates concurrently: while
\* an oracle call of a candidate is in flight, the evaluation of the next
\* candidate has started too.
C21_EvaluationsOverlap ==
    \A c \in 1..(Len(route_candidates) - 1) : InFlight(c) => Started(c + 1)

---------------------------------------------------------------------------
(* The candidate records during an evaluation.                             *)

\* C22: after _process_route_candidate has run on a candidate record, the
\* record has exactly the fields and values it had when the fetcher or the
\* fallback generator produced it.
C22_CandidateUnchanged ==
    \A c \in 1..Len(route_candidates) :
        Finished(c) => route_candidates[c] = FetchedCandidates[c]

---------------------------------------------------------------------------
(* Cancellation of get_recommended_routes.                                 *)

\* C23: when get_recommended_routes is cancelled while an oracle call is in
\* flight, the cancellation propagates: the call raises CancelledError and
\* returns no RouteResponse, neither a partial one nor one with
\* success = false.
C23_CancellationPropagates ==
    cancelled => /\ pc = "cancelled"
                 /\ result = Raise("CancelledError")

\* Cancelled during the second candidate's oracle calls, after the first
\* candidate was processed and a call of the second was answered
C23_Witness ==
    /\ cancelled /\ pc = "cancelled"
    /\ processed_routes # << >> /\ predictions # << >>
    /\ ~ result.ok

---------------------------------------------------------------------------
(* The shape of the responses of get_recommended_routes.                   *)

\* get_recommended_routes returned a response, or its selector, whose
\* response it returns as it is, did
ResponseReturned == (RecommendReturned \/ SelectReturned) /\ result.ok

\* The four route slots of a response
Slots(response) ==
    { response.fastest_route, response.shortest_route, response.healthiest_route,
      response.optimal_route }

\* C24: in every RouteResponse of get_recommended_routes, success holds
\* exactly when total_routes >= 1, and exactly then optimal_route is
\* present; when success is false the four route slots are absent.
C24_SuccessIffRoutes ==
    ResponseReturned
    => /\ result.val.success <=> result.val.total_routes >= 1
       /\ result.val.success <=> result.val.optimal_route # None
       /\ ~ result.val.success => Slots(result.val) = { None }

\* get_recommended_routes returned a successful response whose optimal
\* route is present while a category slot is empty
C24_Witness ==
    /\ RecommendReturned /\ result.ok
    /\ result.val.success /\ result.val.total_routes >= 1
    /\ result.val.optimal_route # None
    /\ result.val.healthiest_route = None

---------------------------------------------------------------------------
(* The categories a request asks for.                                      *)

\* The categories listed in the request's route_types
RequestedTypes(req) == { req.route_types[k] : k \in 1..Len(req.route_types) }

\* The category slot of a response
Slot(response, type) ==
    CASE type = "fastest"    -> response.fastest_route
      [] type = "shortest"   -> response.shortest_route
      [] type = "healthiest" -> response.healthiest_route

\* C25: get_recommended_routes classifies by requested category: a slot of
\* the response is populated only if its category is listed in the
\* request's route_types, and no candidate of another category is among
\* the evaluated routes of the result.
C25_OnlyRequestedCategories ==
    (RecommendReturned /\ result.ok)
    => /\ \A type \in {"fastest", "shortest", "healthiest"} :
            Slot(result.val, type) # None => type \in RequestedTypes(request)
       /\ \A k \in 1..Len(scored_routes) :
            scored_routes[k].route_info.type \in RequestedTypes(request)

---------------------------------------------------------------------------
(* The two scores of a list of samples.                                    *)

RouteLogicScoreReturned ==
    entry = "calculate_route_air_quality_score" /\ pc = "done"

\* The air_quality_score _calculate_route_scores gives a route with the
\* samples
ServiceScore(samples) ==
    calculate_route_scores(<< ProcessedRoute(samples) >>)[1].air_quality_score

AllDefault(samples) ==
    \A k \in 1..Len(samples) : samples[k] = create_default_air_quality

\* C26: for every non-empty list of samples, route-logic's
\* calculate_route_air_quality_score and the score of _calculate_route_scores
\* are the same value, and both are 100 when every sample is the default
\* sample.
C26_ScoresAgree ==
    (RouteLogicScoreReturned /\ args # << >>)
    => /\ result.val = ServiceScore(args)
       /\ AllDefault(args) => (result.val = Rat(100, 1) /\ ServiceScore(args) = Rat(100, 1))

---------------------------------------------------------------------------
(* The segments of route-logic.                                            *)

RouteLogicSegmentsReturned == entry = "create_route_segments" /\ pc = "done"

\* The fields of a prediction that a segment carries
SegmentFields(prediction) ==
    [pm25 |-> prediction.pm25, pm10 |-> prediction.pm10, o3 |-> prediction.o3,
     no2 |-> prediction.no2, air_quality_index |-> prediction.air_quality_index,
     grade |-> FloatOfGrade(prediction.grade).val]

\* C27: route-logic's create_route_segments gives segment i the prediction
\* obtained for waypoint i, for every start and end, also when consecutive
\* waypoints are less than 0.001 degree apart.
C27_SegmentCarriesOwnPrediction ==
    RouteLogicSegmentsReturned
    => /\ result.ok
       /\ \A i \in 1..Len(result.val) :
            result.val[i].air_quality = SegmentFields(args.air_quality_data[i])

---------------------------------------------------------------------------
(* The responses of route-logic's handlers.                                *)

CalculateRoutesReturned ==
    entry \in {"calculate_routes", "calculate_routes_post"} /\ pc = "done"

\* C28: calculate_routes and calculate_routes_post answer success = false
\* with zero routes when no route survives the filter and process_route,
\* and success = true only with at least one route in the response.
C28_SuccessNeedsRoute ==
    (CalculateRoutesReturned /\ result.ok)
    => (result.val.success <=> Len(result.val.routes) >= 1)

---------------------------------------------------------------------------
(* The index of the AI prediction service.                                 *)

AqiReturned == entry = "calculate_aqi" /\ pc = "done"

\* The index of the next prediction of the grid, or of this one at the end
NextAqi ==
    calculate_aqi(F64Div(IF args < MaxPM25 * PM25Steps THEN args + 1 ELSE args, PM25Steps))

\* The sample the service builds from a prediction with the index
SampleWithIndex(aqi) == ReplyEstimate(Estimate(aqi))

\* C30: for every PM2.5 value in the clamped range 0..500, calculate_aqi
\* returns an integer in 0..500, does not fall when PM2.5 rises, and is 50,
\* 100, 150, 200 at 15, 35, 75, 150; AirQualityData accepts the index, so
\* the sample built from it is not replaced by the default sample.
C30_AqiInRange ==
    AqiReturned
    => /\ result.val \in 0..500
       /\ result.val <= NextAqi
       /\ args = 15 * PM25Steps => result.val = 50
       /\ args = 35 * PM25Steps => result.val = 100
       /\ args = 75 * PM25Steps => result.val = 150
       /\ args = 150 * PM25Steps => result.val = 200
       /\ SampleWithIndex(result.val).ok
       /\ SampleWithIndex(result.val).val.air_quality_index = result.val

\* The index of the prediction 500, the largest the clamp lets through
C30_Witness ==
    /\ AqiReturned /\ args = MaxPM25 * PM25Steps
    /\ result.val = 433

---------------------------------------------------------------------------
(* The model of the AI prediction service and its flag.                    *)

\* The calls of load_model so far, in order
Loads == SelectSeq(history, LAMBDA h : h.op = "load")

\* The last operation was a request to /api/v1/predict
Predicted == history # << >> /\ history[Len(history)].op = "predict"

\* C29: after any sequence of startup, reloads and predictions, with loads
\* that succeed or fail: model_loaded implies that model and scaler are
\* set; a request to /api/v1/predict made while model_loaded is false
\* fails with status 500 and returns no predictions; and model_loaded is
\* false after a failed load, also after an earlier successful one, until
\* a later load succeeds.
C29_ModelLoadedFlag ==
    entry = "ai_prediction"
    => /\ model_loaded => (model # None /\ scaler # None)
       /\ (Predicted /\ ~ model_loaded) => result = HTTP500
       /\ Loads # << >> => (model_loaded <=> Loads[Len(Loads)].ok)

\* A load succeeded, a reload failed, and the request to /api/v1/predict
\* after it was answered with status 500
C29_Witness ==
    /\ entry = "ai_prediction" /\ Len(history) = 3
    /\ history[1].ok /\ history[2].op = "load" /\ ~ history[2].ok
    /\ Predicted /\ result = HTTP500
    /\ ~ model_loaded /\ model # None

=============================================================================
